---- MODULE Spec2Model ----
(***************************************************************************)
(* A model of the xhs_parser repository: the extraction of the embedded    *)
(* object literal from a page (extract_initial_state, parser.py and        *)
(* main.py) and the normalisation of the parsed tree into a record         *)
(* (parse_note_data, parser.py and main.py).                               *)
(*                                                                         *)
(* Text is modelled as a sequence of tokens.  A token is one character     *)
(* that matters to the lexing ("{", "}", a quote, a backslash, ...) or one *)
(* of the fixed words the code searches for, kept atomic                   *)
(* ("window.__INITIAL_STATE__", "</script>", "undefined", ...).  Indices   *)
(* are Python's: the first token of a text has index 0.                    *)
(***************************************************************************)
EXTENDS Integers, Sequences, FiniteSets, TLC

VARIABLES html, pc, json_start, script_end, brace_count, json_end, result

\* extract_initial_state: the page, the position in the function, its locals
\* and what it returns or raises.
extractVars == <<html, pc, json_start, script_end, brace_count, json_end, result>>

VARIABLES tree, main_note_data, main_user_data, main_record, parser_record

\* parse_note_data: the parsed tree it is given (its argument data), the
\* locals note_data and user_data of main.py's when it returns or raises, and
\* what main.py's and parser.py's return or raise.
noteVars == <<tree, main_note_data, main_user_data, main_record, parser_record>>

VARIABLES scan_i, in_string, escape_next, in_single_quote, stopped

\* The scanner of extract_initial_state run one iteration at a time: the loop
\* variable i (scan_i), the flags of the loop, and whether the loop was left by break.
\* brace_count and json_end are the variables of extractVars.
scanVars == <<scan_i, in_string, escape_next, in_single_quote, stopped>>

VARIABLES input_text, once, twice

\* A text function (clean_topic_tags, the sanitizer) applied to a text and
\* again to its own result.
textVars == <<input_text, once, twice>>

VARIABLES impl, input_url, full_url, link_pc, stages, redirect_status,
          fetch_status, link_type, use_desktop_ua, extraction_path, link_result

\* One call of parse_xhs_link: the implementation called ("parser" for
\* parser.py, "main" for main.py), its argument, its locals, the position in
\* the call, the stages run so far, the statuses the two requests received,
\* and what the call returns or raises.  The page fetched is html, what
\* extract_initial_state made of it is result and tree.
linkVars == <<impl, input_url, full_url, link_pc, stages, redirect_status,
              fetch_status, link_type, use_desktop_ua, extraction_path, link_result>>

VARIABLES test_link

\* One run of test_single_link up to its call of parse_xhs_link: its locals
\* link_type, use_desktop_ua, extraction_path and actual_ua, as one record.
testVars == <<test_link>>

vars == <<extractVars, noteVars, scanVars, textVars, linkVars, testVars>>

\* What an operation that does not touch them leaves alone.
notExtractVars == <<noteVars, scanVars, textVars, linkVars, testVars>>

notNoteVars == <<extractVars, scanVars, textVars, linkVars, testVars>>

notScanVars == <<noteVars, textVars, linkVars, testVars>>

notTextVars == <<extractVars, noteVars, scanVars, linkVars, testVars>>

(***************************************************************************)
(* Tokens                                                                  *)
(***************************************************************************)
NAME == "window.__INITIAL_STATE__"
SCRIPT_END == "</script>"
LB == "{"
RB == "}"
DQ == "\""
SQ == "'"
BS == "\\"
WS == " "
EQ == "="
SEMI == ";"
COLON == ":"
COMMA == ","
DIGIT == "1"
UNDEF == "undefined"
NULLTOK == "null"

\* A token whose first and last characters are word characters (\w).
IsWord(c) == c \in {DIGIT, UNDEF, NULLTOK, NAME}

\* Python's s[i] and s[a:b] for 0 <= a.
At(s, i) == s[i + 1]

Slice(s, a, b) == SubSeq(s, a + 1, b)

Min(a, b) == IF a <= b THEN a ELSE b

Max(a, b) == IF a >= b THEN a ELSE b

\* str.find(tok, start): the least index >= start holding tok, or -1.
RECURSIVE Find(_, _, _)
Find(s, tok, start) ==
    IF start >= Len(s) THEN -1
    ELSE IF At(s, start) = tok THEN start
    ELSE Find(s, tok, start + 1)

\* The index reached from i by skipping whitespace (\s*, or json's whitespace).
RECURSIVE SkipWs(_, _)
SkipWs(s, i) ==
    IF i < Len(s) /\ At(s, i) = WS THEN SkipWs(s, i + 1) ELSE i

\* TRUE iff index i of s holds tok.
Holds(s, i, tok) == i >= 0 /\ i < Len(s) /\ At(s, i) = tok

(***************************************************************************)
(* The fast path's pattern                                                 *)
(*   window\.__INITIAL_STATE__\s*=\s*(\{.*?\})\s*</script>     (re.DOTALL) *)
(***************************************************************************)
\* The least e >= from with "}" at e followed by \s*</script>, or -1: the
\* end of the non-greedy group (\{.*?\}) whose "{" is before from.
RECURSIVE LazyClose(_, _)
LazyClose(s, from) ==
    IF from >= Len(s) THEN -1
    ELSE IF At(s, from) = RB /\ Holds(s, SkipWs(s, from + 1), SCRIPT_END) THEN from
    ELSE LazyClose(s, from + 1)

\* The match of the pattern that starts at index i: the group's first and
\* last index, or <<-1, -1>>.
MatchAt(s, i) ==
    IF ~Holds(s, i, NAME) THEN <<-1, -1>>
    ELSE LET j == SkipWs(s, i + 1) IN
         IF ~Holds(s, j, EQ) THEN <<-1, -1>>
         ELSE LET k == SkipWs(s, j + 1) IN
              IF ~Holds(s, k, LB) THEN <<-1, -1>>
              ELSE LET e == LazyClose(s, k + 1) IN
                   IF e = -1 THEN <<-1, -1>> ELSE <<k, e>>

\* re.search: the match at the leftmost index at which the pattern matches.
RECURSIVE RegexSearchFrom(_, _)
RegexSearchFrom(s, i) ==
    IF i >= Len(s) THEN <<-1, -1>>
    ELSE IF MatchAt(s, i) # <<-1, -1>> THEN MatchAt(s, i)
    ELSE RegexSearchFrom(s, i + 1)

RegexSearch(s) == RegexSearchFrom(s, 0)

(***************************************************************************)
(* re.sub(r'\bundefined\b', 'null', json_str)                              *)
(***************************************************************************)
\* A word boundary lies before the token at index i, whatever follows it.
Standalone_LeftOnly(s, i) == i = 0 \/ ~IsWord(At(s, i - 1))

\* A word boundary lies on both sides of the token at index i.
Standalone(s, i) ==
    /\ (i = 0 \/ ~IsWord(At(s, i - 1)))
    /\ (i = Len(s) - 1 \/ ~IsWord(At(s, i + 1)))

Sanitize(s) ==
    [n \in 1..Len(s) |->
        IF s[n] = UNDEF /\ Standalone(s, n - 1) THEN NULLTOK ELSE s[n]]

(***************************************************************************)
(* json.loads, as far as the tokens reach: objects, strings, numbers, null *)
(* Each parser returns the index after the value, or -1 on a decode error. *)
(***************************************************************************)
\* The body of a string whose opening quote is before i.
RECURSIVE JsonString(_, _)
JsonString(s, i) ==
    IF i >= Len(s) THEN -1
    ELSE IF At(s, i) = DQ THEN i + 1
    ELSE IF At(s, i) = BS
         THEN IF i + 1 < Len(s) /\ At(s, i + 1) \in {DQ, BS}
              THEN JsonString(s, i + 2)
              ELSE -1
    ELSE JsonString(s, i + 1)

RECURSIVE JsonNumber(_, _)
JsonNumber(s, i) ==
    IF i < Len(s) /\ At(s, i) = DIGIT THEN JsonNumber(s, i + 1) ELSE i

RECURSIVE JsonValue(_, _)
RECURSIVE JsonMembers(_, _)
\* The members of an object from the property name expected at i.
JsonMembers(s, i) ==
    IF ~Holds(s, i, DQ) THEN -1
    ELSE LET k == JsonString(s, i + 1) IN
         IF k = -1 THEN -1
         ELSE LET c == SkipWs(s, k) IN
              IF ~Holds(s, c, COLON) THEN -1
              ELSE LET v == JsonValue(s, SkipWs(s, c + 1)) IN
                   IF v = -1 THEN -1
                   ELSE LET m == SkipWs(s, v) IN
                        IF Holds(s, m, RB) THEN m + 1
                        ELSE IF Holds(s, m, COMMA)
                             THEN JsonMembers(s, SkipWs(s, m + 1))
                        ELSE -1

JsonValue(s, i) ==
    IF i >= Len(s) THEN -1
    ELSE IF At(s, i) = DQ THEN JsonString(s, i + 1)
    ELSE IF At(s, i) = LB
         THEN LET j == SkipWs(s, i + 1) IN
              IF Holds(s, j, RB) THEN j + 1 ELSE JsonMembers(s, j)
    ELSE IF At(s, i) = DIGIT THEN JsonNumber(s, i)
    ELSE IF At(s, i) = NULLTOK THEN i + 1
    ELSE -1

\* TRUE iff json.loads(s) returns a value (no JSONDecodeError).
JsonLoads(s) ==
    LET e == JsonValue(s, SkipWs(s, 0)) IN
    e # -1 /\ SkipWs(s, e) = Len(s)

(***************************************************************************)
(* The robust path's scanner                                               *)
(***************************************************************************)
ScanInit(start) ==
    [brace_count |-> 0, json_end |-> start, in_string |-> FALSE,
     escape_next |-> FALSE, in_single_quote |-> FALSE, stopped |-> FALSE]

\* An iteration in which each quote toggles its flag whatever the other flag.
ScanStep_QuotesIndependent(st, char, i) ==
    IF st.escape_next THEN [st EXCEPT !.escape_next = FALSE]
    ELSE IF char = BS THEN [st EXCEPT !.escape_next = TRUE]
    ELSE IF char = DQ THEN [st EXCEPT !.in_string = ~st.in_string]
    ELSE IF char = SQ THEN [st EXCEPT !.in_single_quote = ~st.in_single_quote]
    ELSE IF ~st.in_string /\ ~st.in_single_quote
         THEN IF char = LB THEN [st EXCEPT !.brace_count = st.brace_count + 1]
              ELSE IF char = RB
                   THEN IF st.brace_count - 1 = 0
                        THEN [st EXCEPT !.brace_count = 0, !.json_end = i + 1,
                                        !.stopped = TRUE]
                        ELSE [st EXCEPT !.brace_count = st.brace_count - 1]
              ELSE st
    ELSE st

\* One iteration of the loop `for i in range(json_start, search_end)`.
ScanStep(st, char, i) ==
    IF st.escape_next THEN [st EXCEPT !.escape_next = FALSE]
    ELSE IF char = BS THEN [st EXCEPT !.escape_next = TRUE]
    ELSE IF char = DQ /\ ~st.escape_next /\ ~st.in_single_quote
         THEN [st EXCEPT !.in_string = ~st.in_string]
    ELSE IF char = SQ /\ ~st.escape_next /\ ~st.in_string
         THEN [st EXCEPT !.in_single_quote = ~st.in_single_quote]
    ELSE IF ~st.in_string /\ ~st.in_single_quote
         THEN IF char = LB THEN [st EXCEPT !.brace_count = st.brace_count + 1]
              ELSE IF char = RB
                   THEN IF st.brace_count - 1 = 0
                        THEN [st EXCEPT !.brace_count = 0, !.json_end = i + 1,
                                        !.stopped = TRUE]
                        ELSE [st EXCEPT !.brace_count = st.brace_count - 1]
              ELSE st
    ELSE st

\* The loop from index i to search_end, left by `break` when stopped.
RECURSIVE ScanLoop(_, _, _, _)
ScanLoop(s, i, search_end, st) ==
    IF i >= search_end \/ st.stopped THEN st
    ELSE ScanLoop(s, i + 1, search_end, ScanStep(st, At(s, i), i))

(***************************************************************************)
(* extract_initial_state                                                   *)
(***************************************************************************)
NoResult == [kind |-> "none"]

\* A returned tree, named by the sanitized text json.loads parsed, with the
\* place of that text in the page and the path that produced it.
Value(text, first, last, via) ==
    [kind |-> "value", text |-> text, first |-> first, last |-> last, via |-> via]

Error(err) == [kind |-> "error", err |-> err]

\* The JSON parse failure: the sanitized text html[first..last] did not parse.
Malformed(first, last) ==
    [kind |-> "error", err |-> "MalformedObject", first |-> first, last |-> last]

NotFoundErrors == {"NameNotFound", "JsonStartNotFound"}

\* The regex attempt: pc "start".
FastPath ==
    /\ pc = "start"
    /\ LET m == RegexSearch(html)
           json_str == Sanitize(Slice(html, m[1], m[2] + 1))
       IN IF m # <<-1, -1>> /\ JsonLoads(json_str)
          THEN /\ result' = Value(json_str, m[1], m[2], "fast")
               /\ pc' = "done"
          ELSE /\ result' = result
               /\ pc' = "locate"
    /\ UNCHANGED <<html, json_start, script_end, brace_count, json_end>>
    /\ UNCHANGED notExtractVars

\* start_idx, json_start and script_end: pc "locate".
Locate ==
    /\ pc = "locate"
    /\ LET start_idx == Find(html, NAME, 0) IN
       IF start_idx = -1
       THEN /\ result' = Error("NameNotFound")
            /\ pc' = "done"
            /\ UNCHANGED <<json_start, script_end>>
       ELSE IF Find(html, LB, start_idx) = -1
       THEN /\ result' = Error("JsonStartNotFound")
            /\ pc' = "done"
            /\ UNCHANGED <<json_start, script_end>>
       ELSE /\ json_start' = Find(html, LB, start_idx)
            /\ script_end' = IF Find(html, SCRIPT_END, start_idx) = -1
                             THEN Len(html)
                             ELSE Find(html, SCRIPT_END, start_idx)
            /\ pc' = "scan"
            /\ result' = result
    /\ UNCHANGED <<html, brace_count, json_end>>
    /\ UNCHANGED notExtractVars

\* The scan and the test of brace_count after it: pc "scan".
Scan ==
    /\ pc = "scan"
    /\ LET search_end == Min(script_end, Len(html))
           st == ScanLoop(html, json_start, search_end, ScanInit(json_start))
       IN /\ brace_count' = st.brace_count
          /\ json_end' = st.json_end
          /\ IF st.brace_count # 0
             THEN result' = Error("UnbalancedObject") /\ pc' = "done"
             ELSE result' = result /\ pc' = "parse"
    /\ UNCHANGED <<html, json_start, script_end>>
    /\ UNCHANGED notExtractVars

\* The sanitizer and json.loads on html[json_start:json_end]: pc "parse".
ParseSpan ==
    /\ pc = "parse"
    /\ LET json_str == Sanitize(Slice(html, json_start, json_end)) IN
       result' = IF JsonLoads(json_str)
                 THEN Value(json_str, json_start, json_end - 1, "robust")
                 ELSE Malformed(json_start, json_end - 1)
    /\ pc' = "done"
    /\ UNCHANGED <<html, json_start, script_end, brace_count, json_end>>
    /\ UNCHANGED notExtractVars

(***************************************************************************)
(* The pages extract_initial_state is run on                               *)
(***************************************************************************)
MaxBody == 4

BodyTokens == {LB, RB, DQ, SQ, BS, DIGIT}

RECURSIVE SeqsUpTo(_, _)
SeqsUpTo(S, n) ==
    IF n = 0 THEN {<<>>}
    ELSE LET shorter == SeqsUpTo(S, n - 1) IN
         shorter \cup {Append(q, x) : q \in shorter, x \in S}

\* Object literals of a real page, longer than the enumerated bodies.
FixtureBodies ==
    { <<LB, DQ, DIGIT, DQ, COLON, DIGIT, RB>>,
      <<LB, DQ, DIGIT, DQ, COLON, DQ, RB, DQ, RB>>,
      <<LB, DQ, DIGIT, DQ, COLON, DQ, LB, DQ, RB>>,
      <<LB, DQ, DIGIT, DQ, COLON, DQ, BS, DQ, RB, DQ, RB>>,
      <<LB, SQ, DIGIT, SQ, COLON, SQ, RB, DQ, SQ, RB>>,
      <<LB, DQ, DIGIT, DQ, COLON, UNDEF, COMMA, WS, DQ, SQ, DQ, COLON, NULLTOK, RB>>,
      <<LB, DQ, DIGIT, DQ, COLON, LB, DQ, DIGIT, DQ, COLON, DIGIT, UNDEF, RB, RB>>,
      <<LB, DQ, DIGIT, DQ, COLON, LB, DQ, LB, DQ, COLON, LB, RB, RB, WS, RB>>,
      <<LB, DQ, DIGIT, DQ, COLON, DQ>> }

Bodies == SeqsUpTo(BodyTokens, MaxBody) \cup FixtureBodies

Heads ==
    { <<>>, <<NAME>>, <<NAME, EQ>>, <<NAME, WS, EQ, WS>>,
      <<NAME, SEMI, LB, RB, NAME, EQ>>, <<SCRIPT_END, NAME, EQ>> }

Tails ==
    { <<>>, <<SCRIPT_END>>, <<WS, SCRIPT_END>>, <<SEMI, SCRIPT_END>>,
      <<SCRIPT_END, LB, RB, SCRIPT_END>>, <<SCRIPT_END, DQ, RB, SCRIPT_END>> }

Pages == {h \o b \o t : h \in Heads, b \in Bodies, t \in Tails}

\* The values of the variables of the operations a specification leaves out.
NoteIdle ==
    /\ tree = [t |-> "dict", items |-> <<>>]
    /\ main_note_data = [t |-> "none"]
    /\ main_user_data = [t |-> "none"]
    /\ main_record = [kind |-> "none"]
    /\ parser_record = [kind |-> "none"]

ScanIdle ==
    /\ scan_i = 0
    /\ in_string = FALSE
    /\ escape_next = FALSE
    /\ in_single_quote = FALSE
    /\ stopped = FALSE

NotApplied == [t |-> "unset"]

TextIdle ==
    /\ input_text = NotApplied
    /\ once = NotApplied
    /\ twice = NotApplied

TestIdle == test_link = NotApplied

LinkIdle ==
    /\ impl = "none"
    /\ input_url = <<>>
    /\ full_url = <<>>
    /\ link_pc = "idle"
    /\ stages = <<>>
    /\ redirect_status = 0
    /\ fetch_status = 0
    /\ link_type = ""
    /\ use_desktop_ua = FALSE
    /\ extraction_path = ""
    /\ link_result = [kind |-> "none"]

ExtractIdle ==
    /\ html = <<>>
    /\ pc = "done"
    /\ json_start = 0
    /\ script_end = 0
    /\ brace_count = 0
    /\ json_end = 0
    /\ result = NoResult

ExtractInit ==
    /\ html \in Pages
    /\ pc = "start"
    /\ json_start = 0
    /\ script_end = 0
    /\ brace_count = 0
    /\ json_end = 0
    /\ result = NoResult
    /\ NoteIdle
    /\ ScanIdle
    /\ TextIdle
    /\ TestIdle
    /\ LinkIdle

ExtractNext == FastPath \/ Locate \/ Scan \/ ParseSpan

SpecExtract == ExtractInit /\ [][ExtractNext]_vars

(***************************************************************************)
(* Claims about extract_initial_state                                      *)
(***************************************************************************)
\* The closing brace of the object literal opened before index i, counted
\* independently of the scanner: a quoted string runs to its own closing
\* quote, a backslash escapes the next character inside a string only, and
\* braces count outside strings only.  -1 if the literal is not closed.
RECURSIVE RefClose(_, _, _, _)
RefClose(s, i, depth, quote) ==
    IF i >= Len(s) THEN -1
    ELSE LET c == At(s, i) IN
         IF quote # "none"
         THEN IF c = BS THEN RefClose(s, i + 2, depth, quote)
              ELSE IF c = quote THEN RefClose(s, i + 1, depth, "none")
              ELSE RefClose(s, i + 1, depth, quote)
         ELSE IF c \in {DQ, SQ} THEN RefClose(s, i + 1, depth, c)
         ELSE IF c = LB THEN RefClose(s, i + 1, depth + 1, "none")
         ELSE IF c = RB
              THEN IF depth = 1 THEN i ELSE RefClose(s, i + 1, depth - 1, "none")
         ELSE RefClose(s, i + 1, depth, "none")

\* The index of the "{" of `window.__INITIAL_STATE__ = {` for the name at n,
\* or -1 when the name at n is not assigned an object literal.
AssignedBrace(s, n) ==
    IF ~Holds(s, n, NAME) THEN -1
    ELSE LET j == SkipWs(s, n + 1) IN
         IF ~Holds(s, j, EQ) THEN -1
         ELSE LET k == SkipWs(s, j + 1) IN
              IF Holds(s, k, LB) THEN k ELSE -1

\* The indices at which the name is assigned an object literal.
Assignments(s) == {n \in 0..(Len(s) - 1) : AssignedBrace(s, n) # -1}

\* TRUE iff a backslash lies outside every quoted string of s[k..e].
RECURSIVE StrayBackslash(_, _, _, _)
StrayBackslash(s, i, e, quote) ==
    IF i > e THEN FALSE
    ELSE LET c == At(s, i) IN
         IF quote # "none"
         THEN IF c = BS THEN StrayBackslash(s, i + 2, e, quote)
              ELSE IF c = quote THEN StrayBackslash(s, i + 1, e, "none")
              ELSE StrayBackslash(s, i + 1, e, quote)
         ELSE IF c = BS THEN TRUE
         ELSE IF c \in {DQ, SQ} THEN StrayBackslash(s, i + 1, e, c)
         ELSE StrayBackslash(s, i + 1, e, "none")

\* The page assigns the name, at n, a brace-balanced and quote-balanced
\* object literal that ends at e and is followed by </script>.  As in any
\* script element, the literal holds no </script>; its backslashes lie
\* inside its strings.
BalancedAssignment(s, n, e) ==
    LET k == AssignedBrace(s, n) IN
    /\ k # -1
    /\ e = RefClose(s, k + 1, 1, "none")
    /\ e # -1
    /\ Holds(s, SkipWs(s, e + 1), SCRIPT_END)
    /\ \A i \in k..e : At(s, i) # SCRIPT_END
    /\ ~StrayBackslash(s, k, e, "none")

\* The text json.loads decided the result on is exactly html[k..e].
ParsedExactly(k, e) ==
    /\ \/ result.kind = "value"
       \/ result.kind = "error" /\ result.err = "MalformedObject"
    /\ result.first = k
    /\ result.last = e

\* C1: on every page that assigns the name a balanced object literal followed
\* by </script>, extract_initial_state parses exactly the span from the
\* literal's "{" to its matching "}" as the independent reference counts it:
\* never a shorter or longer span, never the unbalanced-object error.
C1_ExactSpan ==
    pc = "done" =>
        \A n \in Assignments(html) :
            \A e \in 0..(Len(html) - 1) :
                BalancedAssignment(html, n, e)
                    => ParsedExactly(AssignedBrace(html, n), e)

\* C1 on the pages whose first mention of the name is the assignment.
C1_FirstMentionAssigned ==
    pc = "done" =>
        \A n \in Assignments(html) :
            \A e \in 0..(Len(html) - 1) :
                BalancedAssignment(html, n, e) /\ Find(html, NAME, 0) = n
                    => ParsedExactly(AssignedBrace(html, n), e)

\* The scan of C9: from the first "{" after the name, bounded by the nearest
\* following </script> (the end of the page if there is none).
BoundOf(s) ==
    LET b == Find(s, SCRIPT_END, Find(s, NAME, 0)) IN
    IF b = -1 THEN Len(s) ELSE b

FirstBrace(s) == Find(s, LB, Find(s, NAME, 0))

DepthReturnsToZero(s) ==
    ScanLoop(s, FirstBrace(s), BoundOf(s), ScanInit(FirstBrace(s))).stopped

\* C9: when the page holds the name and a "{" after it, and the depth of the
\* scan does not return to zero inside the bound, extract_initial_state fails
\* with the unbalanced-object error: no value, no other error.
C9_Unbalanced ==
    ( /\ pc = "done"
      /\ Find(html, NAME, 0) # -1
      /\ FirstBrace(html) # -1
      /\ ~DepthReturnsToZero(html) )
        => result = Error("UnbalancedObject")

\* C9 without its last case: the first "{" lies inside the bound and the
\* regex attempt returned nothing.
C9_BraceInsideBound ==
    ( /\ pc = "done"
      /\ Find(html, NAME, 0) # -1
      /\ FirstBrace(html) # -1
      /\ FirstBrace(html) < BoundOf(html)
      /\ ~(result.kind = "value" /\ result.via = "fast")
      /\ ~DepthReturnsToZero(html) )
        => result = Error("UnbalancedObject")

\* C9, its last case: the first "{" after the name lies at or beyond the
\* bound and the regex attempt returned nothing; the scan has no character
\* to read and its depth never returns to zero, so the call is to fail with
\* the unbalanced-object error.
C9_BraceBeyondBound ==
    ( /\ pc = "done"
      /\ Find(html, NAME, 0) # -1
      /\ FirstBrace(html) # -1
      /\ FirstBrace(html) >= BoundOf(html)
      /\ ~(result.kind = "value" /\ result.via = "fast") )
        => result = Error("UnbalancedObject")

\* C10: a page that nowhere assigns the name an object literal gives no value:
\* extract_initial_state fails with the not-found error.
C10_NotFound ==
    (pc = "done" /\ Assignments(html) = {})
        => (result.kind = "error" /\ result.err \in NotFoundErrors)

\* C10, its last clause: a page that nowhere assigns the name an object
\* literal never gives a tree, parsed from whatever other text in braces.
C10_NeverValue ==
    (pc = "done" /\ Assignments(html) = {}) => result.kind # "value"

(***************************************************************************)
(* The parsed tree: Python values                                          *)
(*                                                                         *)
(* A value carries its type in t.  A str is a sequence of tokens, a dict   *)
(* the sequence of its items [k, v] in insertion order, a list the         *)
(* sequence of its elements.  A raised exception travels as a value of     *)
(* type "exc" through the operators that follow.                           *)
(***************************************************************************)
PStr(s) == [t |-> "str", s |-> s]

PInt(n) == [t |-> "int", n |-> n]

PNone == [t |-> "none"]

PDict(items) == [t |-> "dict", items |-> items]

PList(xs) == [t |-> "list", xs |-> xs]

Raise(e) == [t |-> "exc", e |-> e]

Item(k, v) == [k |-> k, v |-> v]

EmptyStr == PStr(<<>>)

EmptyDict == PDict(<<>>)

EmptyList == PList(<<>>)

IsExc(x) == x.t = "exc"

\* bool(x)
Truthy(x) ==
    CASE x.t = "str" -> x.s # <<>>
      [] x.t = "dict" -> x.items # <<>>
      [] x.t = "list" -> x.xs # <<>>
      [] x.t = "int" -> x.n # 0
      [] OTHER -> FALSE

HasKey(d, k) == \E i \in 1..Len(d.items) : d.items[i].k = k

Lookup(d, k) == d.items[CHOOSE i \in 1..Len(d.items) : d.items[i].k = k].v

\* x[k] for a str key k: KeyError on a dict without k, TypeError on any
\* other type (str and list indices must be integers, int and None are not
\* subscriptable).
Subscript(x, k) ==
    IF IsExc(x) THEN x
    ELSE IF x.t = "dict"
         THEN IF HasKey(x, k) THEN Lookup(x, k) ELSE Raise("KeyError")
    ELSE Raise("TypeError")

\* x[0]: IndexError on an empty list or str, KeyError on a dict.
First(x) ==
    IF IsExc(x) THEN x
    ELSE IF x.t = "list"
         THEN IF x.xs = <<>> THEN Raise("IndexError") ELSE x.xs[1]
    ELSE IF x.t = "str"
         THEN IF x.s = <<>> THEN Raise("IndexError") ELSE PStr(<<x.s[1]>>)
    ELSE IF x.t = "dict" THEN Raise("KeyError")
    ELSE Raise("TypeError")

\* x.get(k, default): only a dict has the method.
Get(x, k, default) ==
    IF IsExc(x) THEN x
    ELSE IF x.t = "dict"
         THEN IF HasKey(x, k) THEN Lookup(x, k) ELSE default
    ELSE Raise("AttributeError")

\* `k in x` for a str k: "yes", "no" or "TypeError".  In a str it is the
\* substring test, in a list the test for an element equal to k.
Contains(k, x) ==
    CASE x.t = "dict" -> IF HasKey(x, k) THEN "yes" ELSE "no"
      [] x.t = "str" -> IF \E i \in 1..Len(x.s) : x.s[i] = k THEN "yes" ELSE "no"
      [] x.t = "list" ->
            IF \E i \in 1..Len(x.xs) : x.xs[i].t = "str" /\ x.xs[i].s = <<k>>
            THEN "yes" ELSE "no"
      [] OTHER -> "TypeError"

\* len(x) > 0, or TypeError for a value without a length.
NonEmptyLen(x) ==
    CASE x.t = "dict" -> IF x.items # <<>> THEN "yes" ELSE "no"
      [] x.t = "str" -> IF x.s # <<>> THEN "yes" ELSE "no"
      [] x.t = "list" -> IF x.xs # <<>> THEN "yes" ELSE "no"
      [] OTHER -> "TypeError"

\* `a or b`; b is an expression that is evaluated only when a is falsy.
OrElse(a, b) == IF IsExc(a) THEN a ELSE IF Truthy(a) THEN a ELSE b

\* x.get(k1, "") or x.get(k2, "") or x.get(k3, "")
GetFirstOf3(x, k1, k2, k3) ==
    OrElse(OrElse(Get(x, k1, EmptyStr), Get(x, k2, EmptyStr)), Get(x, k3, EmptyStr))

(***************************************************************************)
(* Strings                                                                 *)
(***************************************************************************)
HTTP == "http:"
HTTPS == "https:"
SLASHES == "//"
PICASSO == "picasso-static"
FE_PLATFORM == "fe-platform"
MP4 == ".mp4"
SNS_VIDEO == "sns-video"
WB_DFT == "WB_DFT"

\* s.startswith(prefix)
StartsWith(s, prefix) ==
    Len(s) >= Len(prefix) /\ SubSeq(s, 1, Len(prefix)) = prefix

\* The least 1-based position at which old occurs in s from position i, or 0.
RECURSIVE Occurrence(_, _, _)
Occurrence(s, old, i) ==
    IF i + Len(old) - 1 > Len(s) THEN 0
    ELSE IF SubSeq(s, i, i + Len(old) - 1) = old THEN i
    ELSE Occurrence(s, old, i + 1)

\* s.replace(old, new, 1)
ReplaceFirst(s, old, new) ==
    LET i == Occurrence(s, old, 1) IN
    IF i = 0 THEN s
    ELSE SubSeq(s, 1, i - 1) \o new \o SubSeq(s, i + Len(old), Len(s))

\* `marker in s`
HasToken(s, marker) == \E i \in 1..Len(s) : s[i] = marker

\* The scheme upgrade of an image URL (a str's tokens): "//" first.
UpgradeImage(s) ==
    IF StartsWith(s, <<SLASHES>>) THEN <<HTTPS>> \o s
    ELSE IF StartsWith(s, <<HTTP, SLASHES>>)
         THEN ReplaceFirst(s, <<HTTP, SLASHES>>, <<HTTPS, SLASHES>>)
    ELSE s

\* The scheme upgrade of video_url: "http://" first; a falsy video_url is
\* left as it is, a truthy one must be a str.
UpgradeVideo(u) ==
    IF IsExc(u) THEN u
    ELSE IF ~Truthy(u) THEN u
    ELSE IF u.t # "str" THEN Raise("AttributeError")
    ELSE IF StartsWith(u.s, <<HTTP, SLASHES>>)
         THEN PStr(ReplaceFirst(u.s, <<HTTP, SLASHES>>, <<HTTPS, SLASHES>>))
    ELSE IF StartsWith(u.s, <<SLASHES>>) THEN PStr(<<HTTPS>> \o u.s)
    ELSE u

\* Not this program's test: one of the two markers only.
NotPlaceholder_PicassoOnly(s) == ~HasToken(s, PICASSO)

\* `"picasso-static" not in url and "fe-platform" not in url`
NotPlaceholder(s) == ~HasToken(s, PICASSO) /\ ~HasToken(s, FE_PLATFORM)

(***************************************************************************)
(* clean_topic_tags (parser.py)                                            *)
(*   re.sub(r'#([^#\[]+)\[..\]#', r'#\1', text), with the two characters   *)
(*   of the topic word between the brackets kept as the one token TOPIC.   *)
(***************************************************************************)
HASH == "#"
LBRK == "["
RBRK == "]"
TOPIC == "topic-word"

\* The first position >= i of s (1-based) that holds "#" or "[", or Len(s)+1:
\* the end of the greedy group ([^#\[]+) that starts at i.
RECURSIVE RunEnd(_, _)
RunEnd(s, i) ==
    IF i > Len(s) \/ s[i] \in {HASH, LBRK} THEN i ELSE RunEnd(s, i + 1)

\* The substitution from position i on: matches are taken left to right and
\* do not overlap.
RECURSIVE CleanFrom(_, _)
CleanFrom(s, i) ==
    IF i > Len(s) THEN <<>>
    ELSE LET r == RunEnd(s, i + 1) IN
         IF /\ s[i] = HASH
            /\ r > i + 1
            /\ r + 3 <= Len(s)
            /\ SubSeq(s, r, r + 3) = <<LBRK, TOPIC, RBRK, HASH>>
         THEN <<HASH>> \o SubSeq(s, i + 1, r - 1) \o CleanFrom(s, r + 4)
         ELSE <<s[i]>> \o CleanFrom(s, i + 1)

clean_topic_tags(text) ==
    IF IsExc(text) THEN text
    ELSE IF ~Truthy(text) THEN text
    ELSE IF text.t # "str" THEN Raise("TypeError")
    ELSE PStr(CleanFrom(text.s, 1))

(***************************************************************************)
(* datetime.fromtimestamp(timestamp / 1000).strftime("%Y-%m-%d"), with UTC *)
(* as the local time zone, for a timestamp >= 0                            *)
(***************************************************************************)
\* Year, month and day of the day that lies `days` days after 1970-01-01.
CivilFromDays(days) ==
    LET z == days + 719468
        era == z \div 146097
        doe == z - era * 146097
        yoe == (doe - doe \div 1460 + doe \div 36524 - doe \div 146096) \div 365
        doy == doe - (365 * yoe + yoe \div 4 - yoe \div 100)
        mp == (5 * doy + 2) \div 153
        d == doy - (153 * mp + 2) \div 5 + 1
        m == IF mp < 10 THEN mp + 3 ELSE mp - 9
        y == yoe + era * 400 + (IF m <= 2 THEN 1 ELSE 0)
    IN <<y, m, d>>

TwoDigits(n) == <<ToString(n \div 10), ToString(n % 10)>>

\* publish_time of a timestamp (milliseconds): "" for a falsy one.
PublishTime(timestamp) ==
    IF IsExc(timestamp) THEN timestamp
    ELSE IF ~Truthy(timestamp) THEN EmptyStr
    ELSE IF timestamp.t # "int" THEN Raise("TypeError")
    ELSE LET ymd == CivilFromDays((timestamp.n \div 1000) \div 86400) IN
         PStr(<<ToString(ymd[1]), "-">> \o TwoDigits(ymd[2]) \o <<"-">>
              \o TwoDigits(ymd[3]))

(***************************************************************************)
(* parse_note_data (main.py): the entity                                   *)
(***************************************************************************)
\* What the three nested try blocks leave: the entity and its user value,
\* note_data = None, or an exception no except clause catches.
Resolved(note_data) ==
    IF note_data.t = "dict"
    THEN [st |-> "ok", note_data |-> note_data,
          user_data |-> Get(note_data, "user", EmptyDict)]
    ELSE [st |-> "exc", exc |-> "AttributeError", note_data |-> note_data]

Unresolved == [st |-> "none"]

\* Path 3, noteData.data.note: the innermost try, whose except clause
\* (KeyError, TypeError) passes.
Path3Main(data) ==
    IF Contains("noteData", data) # "yes" THEN Unresolved
    ELSE IF Contains("data", Lookup(data, "noteData")) # "yes" THEN Unresolved
    ELSE LET d == Subscript(Lookup(data, "noteData"), "data") IN
         IF IsExc(d) THEN Unresolved
         ELSE IF Contains("note", d) # "yes" THEN Unresolved
         ELSE IF IsExc(Subscript(d, "note")) THEN Unresolved
         ELSE Resolved(Subscript(d, "note"))

\* Path 2, note.noteDetailMap.<first key>.note: the try block inside the
\* except clause of path 1.  Its own except clause (KeyError, TypeError,
\* IndexError) is where path 3 is tried.
Path2Main(data) ==
    IF Contains("note", data) # "yes" THEN Unresolved
    ELSE LET note == Lookup(data, "note") IN
         IF Contains("noteDetailMap", note) = "TypeError" THEN Path3Main(data)
         ELSE IF Contains("noteDetailMap", note) = "no" THEN Unresolved
         ELSE LET note_detail_map == Subscript(note, "noteDetailMap") IN
              IF IsExc(note_detail_map) THEN Path3Main(data)
              ELSE IF ~(Truthy(note_detail_map) /\ note_detail_map.t = "dict")
                   THEN Unresolved
              ELSE LET note_detail == note_detail_map.items[1].v IN
                   IF Contains("note", note_detail) = "TypeError"
                   THEN Path3Main(data)
                   ELSE IF Contains("note", note_detail) = "no" THEN Unresolved
                   ELSE IF IsExc(Subscript(note_detail, "note"))
                        THEN Path3Main(data)
                   ELSE Resolved(Subscript(note_detail, "note"))

\* A resolver that is not this program's: path 3 is tried first.
ResolveMain_Path3First(data) ==
    LET p3 == Path3Main(data)
        p1 == Subscript(Subscript(Subscript(data, "noteData"), "data"), "noteData")
    IN IF p3.st = "ok" THEN p3
       ELSE IF IsExc(p1) THEN Path2Main(data)
       ELSE Resolved(p1)

\* Path 1, noteData.data.noteData, and the paths tried in its except clause
\* (KeyError, TypeError).
ResolveMain(data) ==
    LET p1 == Subscript(Subscript(Subscript(data, "noteData"), "data"), "noteData")
    IN IF IsExc(p1) THEN Path2Main(data) ELSE Resolved(p1)

\* parse_note_data (parser.py): the one path, in one try block.
ResolveParser(data) ==
    LET p1 == Subscript(Subscript(Subscript(data, "noteData"), "data"), "noteData")
    IN IF IsExc(p1) THEN [st |-> "exc", exc |-> "EntityNotFound"] ELSE Resolved(p1)

(***************************************************************************)
(* parse_note_data (main.py): author, time and media                       *)
(***************************************************************************)
\* author_name and author_id: from user_data when it is truthy, then, for
\* each one still falsy, from note_data["user"] when the entity has the key.
AuthorMain(note_data, user_data) ==
    LET name1 == IF Truthy(user_data)
                 THEN GetFirstOf3(user_data, "nickName", "nickname", "name")
                 ELSE EmptyStr
        id1 == IF Truthy(user_data)
               THEN GetFirstOf3(user_data, "userId", "user_id", "id")
               ELSE EmptyStr
    IN IF IsExc(name1) THEN name1
       ELSE IF IsExc(id1) THEN id1
       ELSE IF (~Truthy(name1) \/ ~Truthy(id1)) /\ HasKey(note_data, "user")
       THEN LET user_info == Lookup(note_data, "user")
                name2 == IF ~Truthy(name1)
                         THEN GetFirstOf3(user_info, "nickName", "nickname", "name")
                         ELSE name1
                id2 == IF ~Truthy(id1)
                       THEN GetFirstOf3(user_info, "userId", "user_id", "id")
                       ELSE id1
            IN IF IsExc(name2) THEN name2
               ELSE IF IsExc(id2) THEN id2
               ELSE [t |-> "author", name |-> name2, id |-> id2]
       ELSE [t |-> "author", name |-> name1, id |-> id1]

TimestampMain(note_data) ==
    OrElse(OrElse(Get(note_data, "time", PInt(0)), Get(note_data, "timestamp", PInt(0))),
           Get(note_data, "createTime", PInt(0)))

\* if "h264" in stream and len(stream["h264"]) > 0:
\*     video_url = stream["h264"][0].get("masterUrl", "") or ... ;
\* video_url keeps its value `current` when the test fails.
H264Url(stream, current) ==
    IF Contains("h264", stream) = "TypeError" THEN Raise("TypeError")
    ELSE IF Contains("h264", stream) = "no" THEN current
    ELSE LET list == Subscript(stream, "h264") IN
         IF IsExc(list) THEN list
         ELSE IF NonEmptyLen(list) = "TypeError" THEN Raise("TypeError")
         ELSE IF NonEmptyLen(list) = "no" THEN current
         ELSE GetFirstOf3(First(list), "masterUrl", "backupUrl", "url")

\* Strategy 1: video.media.stream.h264[0].
NestedStreamUrl(video_info) ==
    IF Contains("media", video_info) = "TypeError" THEN Raise("TypeError")
    ELSE IF Contains("media", video_info) = "no" THEN EmptyStr
    ELSE LET media == Subscript(video_info, "media") IN
         IF IsExc(media) THEN media
         ELSE IF Contains("stream", media) = "TypeError" THEN Raise("TypeError")
         ELSE IF Contains("stream", media) = "no" THEN EmptyStr
         ELSE LET stream == Subscript(media, "stream") IN
              IF IsExc(stream) THEN stream ELSE H264Url(stream, EmptyStr)

\* Not this program's order: strategy 2 before strategy 1.
VideoInfoUrl_DirectFirst(note_data) ==
    LET video_info == Get(note_data, "video", EmptyDict) IN
    IF ~Truthy(video_info) THEN EmptyStr
    ELSE LET direct == GetFirstOf3(video_info, "url", "videoUrl", "playUrl") IN
         IF IsExc(direct) THEN direct
         ELSE IF ~Truthy(direct) THEN NestedStreamUrl(video_info)
         ELSE direct

\* Strategies 1 and 2, both under `if video_info:`.
VideoInfoUrl(note_data) ==
    LET video_info == Get(note_data, "video", EmptyDict) IN
    IF ~Truthy(video_info) THEN EmptyStr
    ELSE LET nested == NestedStreamUrl(video_info) IN
         IF IsExc(nested) THEN nested
         ELSE IF ~Truthy(nested)
              THEN GetFirstOf3(video_info, "url", "videoUrl", "playUrl")
         ELSE nested

\* Strategy 3: stream.h264[0], tried when video_url is still falsy.
StreamInfoUrl(note_data, video_url) ==
    IF IsExc(video_url) \/ Truthy(video_url) THEN video_url
    ELSE LET stream_info == Get(note_data, "stream", EmptyDict) IN
         IF ~Truthy(stream_info) THEN video_url
         ELSE H264Url(stream_info, video_url)

MaxSearchDepth == 5

IsVideoString(value) ==
    value.t = "str" /\ (HasToken(value.s, MP4) \/ HasToken(value.s, SNS_VIDEO))

\* Strategy 4: find_video_url, with its loops over the items of a dict and
\* the elements of a list from position i on.
RECURSIVE find_video_url(_, _)
RECURSIVE FindInItems(_, _, _)
RECURSIVE FindInElements(_, _, _)
find_video_url(obj, depth) ==
    IF depth > MaxSearchDepth THEN EmptyStr
    ELSE IF obj.t = "dict" THEN FindInItems(obj.items, 1, depth)
    ELSE IF obj.t = "list" THEN FindInElements(obj.xs, 1, depth)
    ELSE EmptyStr

FindInItems(items, i, depth) ==
    IF i > Len(items) THEN EmptyStr
    ELSE IF IsVideoString(items[i].v) THEN items[i].v
    ELSE LET found == find_video_url(items[i].v, depth + 1) IN
         IF Truthy(found) THEN found ELSE FindInItems(items, i + 1, depth)

FindInElements(xs, i, depth) ==
    IF i > Len(xs) THEN EmptyStr
    ELSE LET found == find_video_url(xs[i], depth + 1) IN
         IF Truthy(found) THEN found ELSE FindInElements(xs, i + 1, depth)

\* The video branch.
VideoUrlMain(note_data) ==
    LET url3 == StreamInfoUrl(note_data, VideoInfoUrl(note_data))
        url4 == IF IsExc(url3) \/ Truthy(url3) THEN url3
                ELSE find_video_url(note_data, 0)
    IN UpgradeVideo(url4)

\* The position, from i on, of the first infoList entry that is a dict with
\* a url and the imageScene "WB_DFT", or 0: where the for loop breaks.
InfoListFirstScene(infos, i) ==
    LET hits == {n \in i..Len(infos) :
                    /\ infos[n].t = "dict"
                    /\ HasKey(infos[n], "url")
                    /\ Get(infos[n], "imageScene", PNone).t = "str"
                    /\ Get(infos[n], "imageScene", PNone).s = <<WB_DFT>>}
    IN IF hits = {} THEN 0 ELSE CHOOSE n \in hits : \A m \in hits : n <= m

\* Not this program's lookup: the first infoList entry, whatever its scene.
ImageDictUrl_FirstEntry(img) ==
    LET url == OrElse(OrElse(OrElse(OrElse(Get(img, "url", EmptyStr),
                                           Get(img, "urlDefault", EmptyStr)),
                                    Get(img, "imageUrl", EmptyStr)),
                             Get(img, "original", EmptyStr)),
                      Get(img, "urlPre", EmptyStr))
    IN IF Truthy(url) \/ ~HasKey(img, "infoList")
          \/ Lookup(img, "infoList").t # "list"
       THEN url
       ELSE IF Lookup(img, "infoList").xs = <<>> THEN url
       ELSE Get(Lookup(img, "infoList").xs[1], "url", EmptyStr)

\* The URL of an image element that is a dict, before the `if url:` test.
ImageDictUrl(img) ==
    LET url == OrElse(OrElse(OrElse(OrElse(Get(img, "url", EmptyStr),
                                           Get(img, "urlDefault", EmptyStr)),
                                    Get(img, "imageUrl", EmptyStr)),
                             Get(img, "original", EmptyStr)),
                      Get(img, "urlPre", EmptyStr))
    IN IF Truthy(url) \/ ~HasKey(img, "infoList")
          \/ Lookup(img, "infoList").t # "list"
       THEN url
       ELSE LET infos == Lookup(img, "infoList").xs
                hit == InfoListFirstScene(infos, 1)
                scene_url == IF hit = 0 THEN url
                             ELSE Get(infos[hit], "url", EmptyStr)
            IN IF ~Truthy(scene_url) /\ infos # <<>>
               THEN Get(infos[1], "url", EmptyStr)
               ELSE scene_url

\* What one element adds to image_urls (a sequence of str), or an exception.
ImageElementMain(img) ==
    IF img.t = "dict"
    THEN LET url == ImageDictUrl(img) IN
         IF IsExc(url) THEN url
         ELSE IF ~Truthy(url) THEN EmptyList
         ELSE IF url.t = "int" THEN Raise("TypeError")
         ELSE IF url.t # "str" THEN Raise("AttributeError")
         ELSE IF NotPlaceholder(url.s) THEN PList(<<PStr(UpgradeImage(url.s))>>)
         ELSE EmptyList
    ELSE IF img.t = "str"
    THEN IF NotPlaceholder(img.s) THEN PList(<<PStr(UpgradeImage(img.s))>>)
         ELSE EmptyList
    ELSE EmptyList

\* for img in image_list, from element i on, image_urls being acc.
RECURSIVE ImageLoopMain(_, _, _)
ImageLoopMain(xs, i, acc) ==
    IF i > Len(xs) THEN PList(acc)
    ELSE LET one == ImageElementMain(xs[i]) IN
         IF IsExc(one) THEN one ELSE ImageLoopMain(xs, i + 1, acc \o one.xs)

\* The elements a for loop over x visits: the keys of a dict, the characters
\* of a str.
Iterated(x) ==
    CASE x.t = "list" -> x.xs
      [] x.t = "dict" -> [n \in 1..Len(x.items) |-> PStr(<<x.items[n].k>>)]
      [] x.t = "str" -> [n \in 1..Len(x.s) |-> PStr(<<x.s[n]>>)]

\* The image branch.
ImageUrlsMain(note_data) ==
    LET image_list == OrElse(OrElse(Get(note_data, "imageList", EmptyList),
                                    Get(note_data, "images", EmptyList)),
                             Get(note_data, "imageList", EmptyList))
    IN IF ~Truthy(image_list) THEN EmptyList
       ELSE IF image_list.t = "int" THEN Raise("TypeError")
       ELSE ImageLoopMain(Iterated(image_list), 1, <<>>)

Record(type, title, desc, author_name, author_id, publish_time, video_url, image_urls) ==
    [kind |-> "record",
     rec |-> [type |-> type, title |-> title, desc |-> desc,
              author_name |-> author_name, author_id |-> author_id,
              publish_time |-> publish_time, video_url |-> video_url,
              image_urls |-> image_urls]]

Failed(err) == [kind |-> "error", err |-> err]

\* Not this program's test: every type that is a string runs the video branch.
IsVideoType_AnyString(note_type) == note_type.t = "str"

IsVideoType(note_type) == note_type.t = "str" /\ note_type.s = <<"video">>

\* parse_note_data (main.py) from `note_type = ...` to the return.
AssembleMain(note_data, user_data) ==
    LET note_type == Get(note_data, "type", PStr(<<"normal">>))
        title == Get(note_data, "title", EmptyStr)
        desc == Get(note_data, "desc", EmptyStr)
        author == AuthorMain(note_data, user_data)
        publish_time == PublishTime(TimestampMain(note_data))
        video_url == IF IsVideoType(note_type) THEN VideoUrlMain(note_data)
                     ELSE EmptyStr
        image_urls == IF IsVideoType(note_type) THEN EmptyList
                      ELSE ImageUrlsMain(note_data)
    IN IF IsExc(author) THEN Failed(author.e)
       ELSE IF IsExc(publish_time) THEN Failed(publish_time.e)
       ELSE IF IsExc(video_url) THEN Failed(video_url.e)
       ELSE IF IsExc(image_urls) THEN Failed(image_urls.e)
       ELSE Record(note_type, title, desc, author.name, author.id,
                   publish_time, video_url, image_urls)

(***************************************************************************)
(* parse_note_data (parser.py): author, time and media                     *)
(***************************************************************************)
AuthorParser(user_data) ==
    LET name == IF Truthy(user_data) THEN Get(user_data, "nickName", EmptyStr)
                ELSE EmptyStr
        id == IF Truthy(user_data) THEN Get(user_data, "userId", EmptyStr)
              ELSE EmptyStr
    IN IF IsExc(name) THEN name
       ELSE IF IsExc(id) THEN id
       ELSE [t |-> "author", name |-> name, id |-> id]

\* The video branch: video.media.stream.h264[0].masterUrl only.
VideoUrlParser(note_data) ==
    LET video_info == Get(note_data, "video", EmptyDict) IN
    IF ~Truthy(video_info) THEN EmptyStr
    ELSE IF Contains("media", video_info) = "TypeError" THEN Raise("TypeError")
    ELSE IF Contains("media", video_info) = "no" THEN EmptyStr
    ELSE LET media == Subscript(video_info, "media") IN
         IF IsExc(media) THEN media
         ELSE IF Contains("stream", media) = "TypeError" THEN Raise("TypeError")
         ELSE IF Contains("stream", media) = "no" THEN EmptyStr
         ELSE LET stream == Subscript(media, "stream") IN
              IF IsExc(stream) THEN stream
              ELSE IF Contains("h264", stream) = "TypeError" THEN Raise("TypeError")
              ELSE IF Contains("h264", stream) = "no" THEN EmptyStr
              ELSE LET list == Subscript(stream, "h264") IN
                   IF IsExc(list) THEN list
                   ELSE IF NonEmptyLen(list) = "TypeError" THEN Raise("TypeError")
                   ELSE IF NonEmptyLen(list) = "no" THEN EmptyStr
                   ELSE UpgradeVideo(Get(First(list), "masterUrl", EmptyStr))

\* An element handler that keeps the url as written, without the https upgrade.
ImageElementParser_NoUpgrade(img) ==
    IF img.t # "dict" THEN EmptyList
    ELSE LET url == Get(img, "url", EmptyStr) IN
         IF ~Truthy(url) THEN EmptyList
         ELSE IF url.t = "int" THEN Raise("TypeError")
         ELSE IF url.t # "str" THEN Raise("AttributeError")
         ELSE IF NotPlaceholder(url.s) THEN PList(<<url>>)
         ELSE EmptyList

\* What one element adds to image_urls: only a dict with a truthy url adds.
ImageElementParser(img) ==
    IF img.t # "dict" THEN EmptyList
    ELSE LET url == Get(img, "url", EmptyStr) IN
         IF ~Truthy(url) THEN EmptyList
         ELSE IF url.t = "int" THEN Raise("TypeError")
         ELSE IF url.t # "str" THEN Raise("AttributeError")
         ELSE IF NotPlaceholder(url.s) THEN PList(<<PStr(UpgradeImage(url.s))>>)
         ELSE EmptyList

RECURSIVE ImageLoopParser(_, _, _)
ImageLoopParser(xs, i, acc) ==
    IF i > Len(xs) THEN PList(acc)
    ELSE LET one == ImageElementParser(xs[i]) IN
         IF IsExc(one) THEN one ELSE ImageLoopParser(xs, i + 1, acc \o one.xs)

ImageUrlsParser(note_data) ==
    LET image_list == Get(note_data, "imageList", EmptyList) IN
    IF ~Truthy(image_list) THEN EmptyList
    ELSE IF image_list.t = "int" THEN Raise("TypeError")
    ELSE ImageLoopParser(Iterated(image_list), 1, <<>>)

\* parse_note_data (parser.py) from `note_type = ...` to the return.
AssembleParser(note_data, user_data) ==
    LET note_type == Get(note_data, "type", PStr(<<"normal">>))
        title == Get(note_data, "title", EmptyStr)
        author == AuthorParser(user_data)
        publish_time == PublishTime(Get(note_data, "time", PInt(0)))
        video_url == IF IsVideoType(note_type) THEN VideoUrlParser(note_data)
                     ELSE EmptyStr
        image_urls == IF IsVideoType(note_type) THEN EmptyList
                      ELSE ImageUrlsParser(note_data)
        desc == clean_topic_tags(Get(note_data, "desc", EmptyStr))
    IN IF IsExc(author) THEN Failed(author.e)
       ELSE IF IsExc(publish_time) THEN Failed(publish_time.e)
       ELSE IF IsExc(video_url) THEN Failed(video_url.e)
       ELSE IF IsExc(image_urls) THEN Failed(image_urls.e)
       ELSE IF IsExc(desc) THEN Failed(desc.e)
       ELSE Record(note_type, title, desc, author.name, author.id,
                   publish_time, video_url, image_urls)

(***************************************************************************)
(* parse_note_data as actions                                              *)
(***************************************************************************)
NoRecord == [kind |-> "none"]

\* What parse_note_data (main.py) returns or raises on the tree data.
main_parse_note_data(data) ==
    LET r == ResolveMain(data) IN
    IF r.st = "exc" THEN Failed(r.exc)
    ELSE IF r.st = "none" THEN Failed("EntityNotFound")
    ELSE IF ~Truthy(r.note_data) THEN Failed("EntityNotFound")
    ELSE AssembleMain(r.note_data, r.user_data)

\* What parse_note_data (parser.py) returns or raises on the tree data.
parser_parse_note_data(data) ==
    LET r == ResolveParser(data) IN
    IF r.st = "exc" THEN Failed(r.exc)
    ELSE AssembleParser(r.note_data, r.user_data)

\* One call of parse_note_data (main.py) on the tree; note_data and
\* user_data keep the values the call left in them.
ParseNoteDataMain ==
    /\ main_record = NoRecord
    /\ LET r == ResolveMain(tree) IN
       IF r.st = "exc"
       THEN /\ main_note_data' = r.note_data
            /\ main_user_data' = PNone
       ELSE IF r.st = "none"
       THEN UNCHANGED <<main_note_data, main_user_data>>
       ELSE /\ main_note_data' = r.note_data
            /\ main_user_data' = r.user_data
    /\ main_record' = main_parse_note_data(tree)
    /\ UNCHANGED <<tree, parser_record>>
    /\ UNCHANGED notNoteVars

\* One call of parse_note_data (parser.py) on the tree.
ParseNoteDataParser ==
    /\ parser_record = NoRecord
    /\ parser_record' = parser_parse_note_data(tree)
    /\ UNCHANGED <<tree, main_note_data, main_user_data, main_record>>
    /\ UNCHANGED notNoteVars

(***************************************************************************)
(* The trees parse_note_data is run on                                     *)
(***************************************************************************)
\* An item that may be absent: the items <<>> or <<Item(k, v)>>.
Maybe(k, values) == {<<>>} \cup {<<Item(k, v)>> : v \in values}

HttpUrl(host) == PStr(<<HTTP, SLASHES, host>>)

HttpsUrl(host) == PStr(<<HTTPS, SLASHES, host>>)

RelativeUrl(host) == PStr(<<SLASHES, host>>)

\* --- the trees that differ in where the entity lies ---
UserValues(tag) ==
    { EmptyDict, PNone,
      PDict(<<Item("nickName", PStr(<<"name", tag>>)), Item("userId", PStr(<<"id", tag>>))>>),
      PDict(<<Item("nickname", PStr(<<"name", tag>>)), Item("id", PStr(<<"id", tag>>))>>) }

Entity(tag, user_items) ==
    PDict(<<Item("title", PStr(<<tag>>)),
            Item("desc", PStr(<<HASH, tag, LBRK, TOPIC, RBRK, HASH>>)),
            Item("time", PInt(86400000))>>
          \o user_items
          \o <<Item("imageList", PList(<<PDict(<<Item("url", RelativeUrl(tag))>>)>>))>>)

\* What may lie at the end of a candidate path.
Terminals(tag) ==
    {Entity(tag, u) : u \in Maybe("user", UserValues(tag))}
        \cup {EmptyDict, PNone, PStr(<<"s">>), EmptyList, PInt(5)}

NoteDataItems ==
    Maybe("noteData",
          { PNone, PStr(<<"data">>), EmptyDict,
            PDict(<<Item("data", PNone)>>),
            PDict(<<Item("data", PStr(<<"note">>))>>) }
          \cup { PDict(<<Item("data", PDict(a \o c))>>) :
                    a \in Maybe("noteData", Terminals("A")),
                    c \in Maybe("note", Terminals("C")) })

DetailMap(m) == PDict(<<Item("noteDetailMap", m)>>)

NoteItems ==
    Maybe("note",
          { PNone, PInt(1), PStr(<<"noteDetailMap">>),
            PList(<<PStr(<<"noteDetailMap">>)>>), EmptyDict,
            DetailMap(EmptyDict), DetailMap(EmptyList),
            DetailMap(PDict(<<Item("id1", PNone)>>)),
            DetailMap(PDict(<<Item("id1", PStr(<<"note">>))>>)),
            DetailMap(PDict(<<Item("id1", EmptyDict)>>)),
            DetailMap(PDict(<<Item("id1", EmptyDict),
                              Item("id2", PDict(<<Item("note", Entity("B", <<>>))>>))>>)),
            DetailMap(PDict(<<Item("id1", PDict(<<Item("note", Entity("B", <<>>))>>)),
                              Item("id2", PDict(<<Item("note", Entity("B2", <<>>))>>))>>)) }
          \cup { DetailMap(PDict(<<Item("id1", PDict(<<Item("note", b)>>))>>)) :
                    b \in Terminals("B") })

ResolverTrees == {PDict(n \o d) : n \in NoteItems, d \in NoteDataItems}

\* The tree whose only candidate path is path 1, ending in entity.
AtPath1(entity) ==
    PDict(<<Item("noteData", PDict(<<Item("data", PDict(<<Item("noteData", entity)>>))>>))>>)

VideoType == <<Item("type", PStr(<<"video">>))>>

\* --- the video entities that differ in what the strategies 1 to 3 find ---
FieldValues(v) == {EmptyStr, v}

H264Entries(tag) ==
    { PDict(m \o b \o u) :
        m \in Maybe("masterUrl", FieldValues(HttpUrl(tag \o "-master"))),
        b \in Maybe("backupUrl", FieldValues(RelativeUrl(tag \o "-backup"))),
        u \in Maybe("url", FieldValues(HttpsUrl(tag \o "-url"))) }

H264Lists(tag) ==
    {EmptyList} \cup {PList(<<e>>) : e \in H264Entries(tag)}
        \cup {PList(<<EmptyDict, PDict(<<Item("masterUrl", HttpUrl(tag \o "-second"))>>)>>)}

MediaItems ==
    Maybe("media",
          {EmptyDict, PDict(<<Item("stream", EmptyDict)>>)}
              \cup {PDict(<<Item("stream", PDict(<<Item("h264", l)>>))>>) :
                        l \in H264Lists("nested")})

VideoFieldItems ==
    { u \o v \o p :
        u \in Maybe("url", FieldValues(HttpUrl("video-url"))),
        v \in Maybe("videoUrl", {RelativeUrl("video-videoUrl")}),
        p \in Maybe("playUrl", {HttpsUrl("video-playUrl")}) }

VideoItems ==
    {<<>>} \cup {<<Item("video", PDict(m \o f))>> : m \in MediaItems, f \in VideoFieldItems}

StreamEntries ==
    { PDict(m \o b \o u) :
        m \in Maybe("masterUrl", {HttpUrl("stream-master")}),
        b \in Maybe("backupUrl", {RelativeUrl("stream-backup")}),
        u \in Maybe("url", {HttpsUrl("stream-url")}) }

StreamItems ==
    Maybe("stream",
          {EmptyDict, PDict(<<Item("h264", EmptyList)>>)}
              \cup {PDict(<<Item("h264", PList(<<e>>))>>) : e \in StreamEntries})

SearchedItems ==
    Maybe("share", {PDict(<<Item("link", PStr(<<HTTP, SLASHES, "share", MP4>>))>>)})

VideoEntities ==
    { PDict(VideoType \o v \o s \o x) :
        v \in VideoItems, s \in StreamItems, x \in SearchedItems }

\* --- the video entities that differ in where a video string lies ---
MaxNest == 6

\* x wrapped as the shape says, innermost wrapper first: in a dict under the
\* key "in", or as the only element of a list.
RECURSIVE Wrapped(_, _)
Wrapped(x, shape) ==
    IF shape = <<>> THEN x
    ELSE Wrapped(IF Head(shape) = "dict" THEN PDict(<<Item("in", x)>>) ELSE PList(<<x>>),
                 Tail(shape))

Leaves ==
    { PDict(<<Item("u", PStr(<<SLASHES, "leaf", MP4>>))>>),
      PDict(<<Item("u", PStr(<<SNS_VIDEO, "leaf">>))>>),
      PList(<<PStr(<<SLASHES, "element", MP4>>)>>),
      PDict(<<Item("u", PStr(<<"plain">>))>>) }

NestedEntities ==
    { PDict(VideoType \o <<Item("title", PStr(<<"t">>)), Item("a", Wrapped(leaf, shape))>> \o z) :
        leaf \in Leaves,
        shape \in SeqsUpTo({"dict", "list"}, MaxNest),
        z \in Maybe("z", {PStr(<<HTTP, SLASHES, "later", MP4>>)}) }

\* --- the entities that differ in their image list ---
MaxImages == 2

InfoEntry(scene, url) == PDict(<<Item("imageScene", PStr(<<scene>>)), Item("url", url)>>)

ImageElements ==
    { HttpsUrl("e1"), RelativeUrl("e2"), HttpUrl("e3"), EmptyStr,
      PStr(<<HTTPS, SLASHES, FE_PLATFORM, "e4">>),
      PStr(<<SLASHES, "e5", PICASSO>>),
      PDict(<<Item("url", RelativeUrl("d1"))>>),
      PDict(<<Item("url", PStr(<<HTTPS, SLASHES, FE_PLATFORM, "d2">>))>>),
      PDict(<<Item("url", EmptyStr), Item("urlDefault", HttpUrl("d3"))>>),
      EmptyDict,
      PDict(<<Item("infoList", PList(<<InfoEntry("WB_PRV", HttpUrl("d4-first")),
                                       InfoEntry(WB_DFT, RelativeUrl("d4-scene"))>>))>>),
      PDict(<<Item("infoList", PList(<<InfoEntry("WB_PRV", HttpUrl("d5-first")),
                                       InfoEntry(WB_DFT, PStr(<<SLASHES, PICASSO>>))>>))>>),
      PInt(7) }

ImageLists == {PList(l) : l \in SeqsUpTo(ImageElements, MaxImages)}

\* The image list of the spec's second end-to-end scenario.
ScenarioImageList ==
    PList(<<PStr(<<HTTPS, SLASHES, "cdn/1.jpg">>),
            PDict(<<Item("url", PStr(<<SLASHES, "cdn/2.jpg">>))>>),
            PDict(<<Item("url", PStr(<<HTTPS, SLASHES, FE_PLATFORM, "/ph.jpg">>))>>)>>)

\* One element that is a dict, its five URL fields absent, empty or set, with
\* and without an infoList.
InfoLists ==
    { EmptyList,
      PList(<<InfoEntry("WB_PRV", HttpUrl("info-first"))>>),
      PList(<<InfoEntry("WB_PRV", EmptyStr), InfoEntry(WB_DFT, RelativeUrl("info-scene"))>>),
      PList(<<InfoEntry("WB_PRV", HttpUrl("info-first")), InfoEntry(WB_DFT, EmptyStr)>>),
      PList(<<PDict(<<Item("imageScene", PStr(<<WB_DFT>>))>>),
              InfoEntry(WB_DFT, HttpsUrl("info-scene2"))>>),
      PList(<<PStr(<<"s">>), InfoEntry(WB_DFT, HttpsUrl("info-scene3"))>>) }

ElementDicts ==
    { PDict(a \o b \o c \o d \o e \o i) :
        a \in Maybe("url", FieldValues(HttpUrl("f-url"))),
        b \in Maybe("urlDefault", FieldValues(RelativeUrl("f-urlDefault"))),
        c \in Maybe("imageUrl", {HttpsUrl("f-imageUrl")}),
        d \in Maybe("original", {HttpUrl("f-original")}),
        e \in Maybe("urlPre", {RelativeUrl("f-urlPre")}),
        i \in Maybe("infoList", InfoLists) }

ImageEntities ==
    { PDict(t \o <<Item(k, l)>>) :
        t \in Maybe("type", {PStr(<<"normal">>)}),
        k \in {"imageList", "images"},
        l \in ImageLists \cup {ScenarioImageList} \cup {PList(<<e>>) : e \in ElementDicts} }
    \cup
    { PDict(t \o l \o <<Item("images", ScenarioImageList),
                        Item("video", PDict(<<Item("url", HttpUrl("video-url"))>>))>>) :
        t \in Maybe("type", {PStr(<<"normal">>), PStr(<<"video">>), PNone}),
        l \in Maybe("imageList", {EmptyList, ScenarioImageList}) }

NoteTrees ==
    ResolverTrees
        \cup {AtPath1(e) : e \in VideoEntities \cup NestedEntities \cup ImageEntities}

NoteInit ==
    /\ tree \in NoteTrees
    /\ main_note_data = PNone
    /\ main_user_data = PNone
    /\ main_record = NoRecord
    /\ parser_record = NoRecord
    /\ ExtractIdle
    /\ ScanIdle
    /\ TextIdle
    /\ TestIdle
    /\ LinkIdle

NoteNext == ParseNoteDataMain \/ ParseNoteDataParser

SpecNote == NoteInit /\ [][NoteNext]_vars

(***************************************************************************)
(* Claims about schema resolution                                          *)
(***************************************************************************)
\* The value the keys lead to from x through mappings, as <<value>>, or <<>>
\* when a key is missing or a value on the way is not a mapping.
RECURSIVE Walk(_, _)
Walk(x, keys) ==
    IF keys = <<>> THEN <<x>>
    ELSE IF x.t = "dict" /\ HasKey(x, Head(keys))
         THEN Walk(Lookup(x, Head(keys)), Tail(keys))
    ELSE <<>>

\* The value candidate path p leads to in the tree, as <<value>>, or <<>>.
CandidateEnd(tr, p) ==
    CASE p = 1 -> Walk(tr, <<"noteData", "data", "noteData">>)
      [] p = 2 -> LET m == Walk(tr, <<"note", "noteDetailMap">>) IN
                  IF m = <<>> THEN <<>>
                  ELSE IF m[1].t # "dict" THEN <<>>
                  ELSE IF m[1].items = <<>> THEN <<>>
                  ELSE Walk(m[1].items[1].v, <<"note">>)
      [] p = 3 -> Walk(tr, <<"noteData", "data", "note">>)

\* The candidate paths that exist in full.
ExistingPaths(tr) == {p \in 1..3 : CandidateEnd(tr, p) # <<>>}

\* The candidate paths that exist in full and end in a mapping.
MappingPaths(tr) == {p \in ExistingPaths(tr) : CandidateEnd(tr, p)[1].t = "dict"}

Lowest(paths) == CHOOSE p \in paths : \A q \in paths : p <= q

\* The tree that holds candidate path p, ending in x, and nothing else.
OnlyPath(p, x) ==
    CASE p = 1 -> PDict(<<Item("noteData", PDict(<<Item("data",
                            PDict(<<Item("noteData", x)>>))>>))>>)
      [] p = 2 -> PDict(<<Item("note", DetailMap(PDict(<<Item("id1",
                            PDict(<<Item("note", x)>>))>>)))>>)
      [] p = 3 -> PDict(<<Item("noteData", PDict(<<Item("data",
                            PDict(<<Item("note", x)>>))>>))>>)

\* The record of an entity: its fields and media, its author looked up at
\* its user field.
RecordOf(entity) == AssembleMain(entity, Get(entity, "user", EmptyDict))

\* C2: when exactly one candidate path exists in the tree and ends in a
\* mapping (one with at least one field, no other candidate path leading to
\* any value), main.py parse_note_data builds its record from the entity at
\* the end of that path; so does a tree that holds noteData.data.note only.
C2_SinglePath ==
    ( /\ main_record # NoRecord
      /\ Cardinality(ExistingPaths(tree)) = 1
      /\ MappingPaths(tree) = ExistingPaths(tree)
      /\ Truthy(CandidateEnd(tree, Lowest(ExistingPaths(tree)))[1]) )
        => LET entity == CandidateEnd(tree, Lowest(ExistingPaths(tree)))[1] IN
           /\ main_note_data = entity
           /\ main_record = RecordOf(entity)

\* C2 for the paths 1 and 2: the single path of the tree is not path 3.
C2_SinglePath12 ==
    ( /\ main_record # NoRecord
      /\ Cardinality(ExistingPaths(tree)) = 1
      /\ ExistingPaths(tree) # {3}
      /\ MappingPaths(tree) = ExistingPaths(tree)
      /\ Truthy(CandidateEnd(tree, Lowest(ExistingPaths(tree)))[1]) )
        => LET entity == CandidateEnd(tree, Lowest(ExistingPaths(tree)))[1] IN
           /\ main_note_data = entity
           /\ main_record = RecordOf(entity)

\* C3: when two or more candidate paths exist in the tree at once, main.py
\* parse_note_data uses what the lowest-numbered of them ends in, and the
\* outcome is the one of the tree that holds this path alone: no later path
\* has a part in any field of the record, whatever the author lookup gives.
C3_LowestPathWins ==
    ( /\ main_record # NoRecord
      /\ Cardinality(ExistingPaths(tree)) >= 2 )
        => LET p == Lowest(ExistingPaths(tree))
               entity == CandidateEnd(tree, p)[1]
           IN /\ main_note_data = entity
              /\ main_record = main_parse_note_data(OnlyPath(p, entity))

\* Two or three paths end in entities, the used one has no author, a later
\* one has, and the record is built without an author.
C3_Witness ==
    /\ main_record.kind = "record"
    /\ Cardinality(MappingPaths(tree)) >= 2
    /\ main_note_data = CandidateEnd(tree, Lowest(MappingPaths(tree)))[1]
    /\ ~HasKey(main_note_data, "user")
    /\ \E q \in MappingPaths(tree) :
          /\ q # Lowest(MappingPaths(tree))
          /\ Truthy(Get(CandidateEnd(tree, q)[1], "user", EmptyDict))
    /\ main_record.rec.author_name = EmptyStr

(***************************************************************************)
(* Claims about the media of a record                                      *)
(***************************************************************************)
\* The entity of the tree in the record of main.py and of parser.py.
MainBuilt == main_record.kind = "record"

ParserBuilt == parser_record.kind = "record"

ParserEntity == CandidateEnd(tree, 1)[1]

\* The type of an entity, "normal" when it has none.
TypeOf(entity) ==
    IF HasKey(entity, "type") THEN Lookup(entity, "type") ELSE PStr(<<"normal">>)

\* The tokens of the first of the fields that is a non-empty string of the
\* mapping <<d>>; <<>> if there is none or there is no mapping.
RECURSIVE FirstNonEmpty(_, _)
FirstNonEmpty(d, fields) ==
    IF fields = <<>> \/ d = <<>> THEN <<>>
    ELSE IF d[1].t # "dict" THEN <<>>
    ELSE IF /\ HasKey(d[1], Head(fields))
            /\ Lookup(d[1], Head(fields)).t = "str"
            /\ Lookup(d[1], Head(fields)).s # <<>>
         THEN Lookup(d[1], Head(fields)).s
    ELSE FirstNonEmpty(d, Tail(fields))

\* The h264[0] of the stream <<stream>>, as <<entry>> or <<>>.
FirstH264(stream) ==
    LET l == IF stream = <<>> THEN <<>> ELSE Walk(stream[1], <<"h264">>) IN
    IF l = <<>> THEN <<>>
    ELSE IF l[1].t # "list" THEN <<>>
    ELSE IF l[1].xs = <<>> THEN <<>>
    ELSE <<l[1].xs[1]>>

StreamFields == <<"masterUrl", "backupUrl", "url">>

\* What the strategies 1 to 3 yield for an entity.
Strategy1(entity) ==
    FirstNonEmpty(FirstH264(Walk(entity, <<"video", "media", "stream">>)), StreamFields)

Strategy2(entity) ==
    FirstNonEmpty(Walk(entity, <<"video">>), <<"url", "videoUrl", "playUrl">>)

Strategy3(entity) ==
    FirstNonEmpty(FirstH264(Walk(entity, <<"stream">>)), StreamFields)

\* The scheme-normalized form of a URL.
Normalized(s) ==
    IF Len(s) >= 1 /\ s[1] = SLASHES THEN <<HTTPS>> \o s
    ELSE IF Len(s) >= 2 /\ s[1] = HTTP /\ s[2] = SLASHES THEN <<HTTPS>> \o Tail(s)
    ELSE s

\* The first of the sequences that is not empty; <<>> if all are.
RECURSIVE FirstYield(_)
FirstYield(yields) ==
    IF yields = <<>> THEN <<>>
    ELSE IF Head(yields) # <<>> THEN Head(yields)
    ELSE FirstYield(Tail(yields))

\* C4: the video_url of a video entity's record (main.py) is the
\* scheme-normalized yield of the first strategy, in the order 1, 2, 3, 4,
\* that yields a non-empty string; a later strategy never overrides it.
C4_StrategyOrder ==
    (MainBuilt /\ TypeOf(main_note_data) = PStr(<<"video">>))
        => main_record.rec.video_url =
              PStr(Normalized(FirstYield(<<Strategy1(main_note_data),
                                           Strategy2(main_note_data),
                                           Strategy3(main_note_data),
                                           find_video_url(main_note_data, 0).s>>)))

\* masterUrl is set and so is video.url: video_url is masterUrl's.
C4_Witness ==
    /\ MainBuilt
    /\ TypeOf(main_note_data) = PStr(<<"video">>)
    /\ Strategy1(main_note_data) = <<HTTP, SLASHES, "nested-master">>
    /\ Strategy2(main_note_data) = <<HTTP, SLASHES, "video-url">>
    /\ Strategy3(main_note_data) # <<>>
    /\ main_record.rec.video_url = PStr(<<HTTPS, SLASHES, "nested-master">>)

\* A string that holds ".mp4" or "sns-video".
VideoString(x) == x.t = "str" /\ \E i \in 1..Len(x.s) : x.s[i] \in {MP4, SNS_VIDEO}

\* The first video string below the node x, depth-first in insertion order,
\* a field's value or a sequence's element alike, found in the mappings and
\* sequences that lie `level` <= 5 levels below the entity; <<>> if none.
RECURSIVE FirstVideoString(_, _)
RECURSIVE FirstVideoStringFrom(_, _, _)
FirstVideoString(x, level) ==
    IF level > 5 THEN <<>>
    ELSE IF x.t = "dict"
         THEN FirstVideoStringFrom([n \in 1..Len(x.items) |-> x.items[n].v], 1, level)
    ELSE IF x.t = "list" THEN FirstVideoStringFrom(x.xs, 1, level)
    ELSE <<>>

FirstVideoStringFrom(children, i, level) ==
    IF i > Len(children) THEN <<>>
    ELSE IF VideoString(children[i]) THEN children[i].s
    ELSE LET below == FirstVideoString(children[i], level + 1) IN
         IF below # <<>> THEN below ELSE FirstVideoStringFrom(children, i + 1, level)

\* TRUE iff a video string is an element of a sequence somewhere below x.
RECURSIVE HasVideoElement(_)
HasVideoElement(x) ==
    IF x.t = "dict" THEN \E n \in 1..Len(x.items) : HasVideoElement(x.items[n].v)
    ELSE IF x.t = "list"
         THEN \E n \in 1..Len(x.xs) : VideoString(x.xs[n]) \/ HasVideoElement(x.xs[n])
    ELSE FALSE

NoEarlierYield(entity) ==
    Strategy1(entity) = <<>> /\ Strategy2(entity) = <<>> /\ Strategy3(entity) = <<>>

\* C5: when the strategies 1 to 3 yield nothing for a video entity, video_url
\* (main.py) is the first string with ".mp4" or "sns-video" in depth-first
\* insertion order within 5 levels of the entity, be it a field's value or a
\* sequence's element, scheme-normalized; it is empty exactly when there is
\* no such string.
C5_LastResortSearch ==
    ( /\ MainBuilt
      /\ TypeOf(main_note_data) = PStr(<<"video">>)
      /\ NoEarlierYield(main_note_data) )
        => main_record.rec.video_url =
              PStr(Normalized(FirstVideoString(main_note_data, 0)))

\* C5 for the entities that hold no video string as an element of a sequence.
C5_FieldValuesOnly ==
    ( /\ MainBuilt
      /\ TypeOf(main_note_data) = PStr(<<"video">>)
      /\ NoEarlierYield(main_note_data)
      /\ ~HasVideoElement(main_note_data) )
        => main_record.rec.video_url =
              PStr(Normalized(FirstVideoString(main_note_data, 0)))

\* The image list of an entity as main.py takes it: imageList, or images
\* when imageList is missing or empty; <<>> if there is no such sequence.
ImageListMain(entity) ==
    LET a == Walk(entity, <<"imageList">>)
        b == Walk(entity, <<"images">>)
    IN IF a # <<>> /\ a[1].t = "list" /\ a[1] # EmptyList THEN a[1].xs
       ELSE IF b # <<>> /\ b[1].t = "list" THEN b[1].xs
       ELSE <<>>

\* The image list as parser.py takes it: imageList.
ImageListParser(entity) ==
    LET a == Walk(entity, <<"imageList">>) IN
    IF a # <<>> /\ a[1].t = "list" THEN a[1].xs ELSE <<>>

ImageFields == <<"url", "urlDefault", "imageUrl", "original", "urlPre">>

\* The entries of an element's infoList; <<>> if it has none.
InfoListOf(element) ==
    LET l == Walk(element, <<"infoList">>) IN
    IF l # <<>> /\ l[1].t = "list" THEN l[1].xs ELSE <<>>

\* The entries of the infoList that are mappings with a url and the scene
\* "WB_DFT".
SceneEntries(infos) ==
    {n \in 1..Len(infos) :
        /\ infos[n].t = "dict"
        /\ HasKey(infos[n], "url")
        /\ Walk(infos[n], <<"imageScene">>) = <<PStr(<<WB_DFT>>)>>}

\* The URL of the infoList: that of the first "WB_DFT" entry or, if it gives
\* none, that of the first entry.
InfoListUrl(infos) ==
    LET scene == IF SceneEntries(infos) = {} THEN <<>>
                 ELSE FirstNonEmpty(<<infos[Lowest(SceneEntries(infos))]>>, <<"url">>)
    IN IF scene # <<>> THEN scene
       ELSE IF infos = <<>> THEN <<>>
       ELSE FirstNonEmpty(<<infos[1]>>, <<"url">>)

\* The URL main.py resolves an element of the image list to (tokens).
ResolvedMain(element) ==
    IF element.t = "str" THEN element.s
    ELSE IF element.t # "dict" THEN <<>>
    ELSE IF FirstNonEmpty(<<element>>, ImageFields) # <<>>
         THEN FirstNonEmpty(<<element>>, ImageFields)
    ELSE InfoListUrl(InfoListOf(element))

\* The URL parser.py resolves an element to: the url of a mapping.
ResolvedParser(element) == FirstNonEmpty(<<element>>, <<"url">>)

Placeholder(s) == \E i \in 1..Len(s) : s[i] \in {PICASSO, FE_PLATFORM}

Kept(s) == s # <<>> /\ ~Placeholder(s)

\* What an element adds to image_urls: its URL in scheme-normalized form,
\* unless that holds a placeholder marker or is empty; the element that is
\* itself the empty string adds the empty string.
AddedMain(element) ==
    LET u == ResolvedMain(element) IN
    IF Placeholder(u) THEN <<>>
    ELSE IF u = <<>> /\ element.t # "str" THEN <<>>
    ELSE <<PStr(Normalized(u))>>

\* The URLs the elements from i on add to image_urls.
RECURSIVE AddedFrom(_, _)
AddedFrom(elements, i) ==
    IF i > Len(elements) THEN <<>>
    ELSE AddedMain(elements[i]) \o AddedFrom(elements, i + 1)

\* C6: the image_urls of a non-video entity's record (main.py) are made of
\* the URLs its image list's elements resolve to: for a mapping the first
\* non-empty of url, urlDefault, imageUrl, original, urlPre, else the url of
\* the infoList entry with scene "WB_DFT", else that of the first infoList
\* entry; for a string the string itself.
C6_ElementUrl ==
    (MainBuilt /\ TypeOf(main_note_data) # PStr(<<"video">>))
        => main_record.rec.image_urls = PList(AddedFrom(ImageListMain(main_note_data), 1))

\* The image list of the spec's example gives its two URLs.
C6_Witness ==
    /\ MainBuilt
    /\ Walk(main_note_data, <<"imageList">>) = <<ScenarioImageList>>
    /\ TypeOf(main_note_data) = PStr(<<"normal">>)
    /\ main_record.rec.image_urls =
          PList(<<PStr(<<HTTPS, SLASHES, "cdn/1.jpg">>),
                  PStr(<<HTTPS, SLASHES, "cdn/2.jpg">>)>>)

\* An element resolved through its infoList: the "WB_DFT" entry is not the
\* first one.
C6_InfoListReached ==
    /\ MainBuilt
    /\ \E e \in ElementDicts :
          /\ ImageListMain(main_note_data) = <<e>>
          /\ FirstNonEmpty(<<e>>, ImageFields) = <<>>
          /\ SceneEntries(InfoListOf(e)) = {2}
    /\ main_record.rec.image_urls = PList(<<PStr(<<HTTPS, SLASHES, "info-scene">>)>>)

\* image_urls is made of the normalized URLs of elements of the list, taken
\* at increasing positions f[1] < f[2] < ...
InOrderOf(image_urls, elements, Resolve(_)) ==
    \E f \in [1..Len(image_urls) -> 1..Len(elements)] :
        /\ \A j \in 1..Len(image_urls) :
              image_urls[j] = PStr(Normalized(Resolve(elements[f[j]])))
        /\ \A j \in 1..(Len(image_urls) - 1) : f[j] < f[j + 1]

Filtered(image_urls, elements, Resolve(_)) ==
    /\ \A j \in 1..Len(image_urls) : ~Placeholder(image_urls[j].s)
    /\ \A n \in 1..Len(elements) :
          Kept(Resolve(elements[n]))
              => \E j \in 1..Len(image_urls) :
                    image_urls[j] = PStr(Normalized(Resolve(elements[n])))
    /\ InOrderOf(image_urls, elements, Resolve)

\* C7: in a record of main.py and in a record of parser.py, no element of
\* image_urls holds "picasso-static" or "fe-platform"; every element of the
\* image list that the implementation resolves to a non-empty URL with
\* neither marker is in image_urls in scheme-normalized form; and image_urls
\* keeps the order of the list.
C7_ImageFilter ==
    /\ (MainBuilt /\ TypeOf(main_note_data) # PStr(<<"video">>))
          => Filtered(main_record.rec.image_urls.xs,
                      ImageListMain(main_note_data), ResolvedMain)
    /\ (ParserBuilt /\ TypeOf(ParserEntity) # PStr(<<"video">>))
          => Filtered(parser_record.rec.image_urls.xs,
                      ImageListParser(ParserEntity), ResolvedParser)

\* Both implementations ran on a list of a placeholder and two other URLs,
\* one to normalize: the placeholder is dropped, the order kept.
C7_Witness ==
    /\ MainBuilt
    /\ ParserBuilt
    /\ ImageListParser(ParserEntity) =
          <<PDict(<<Item("url", PStr(<<HTTPS, SLASHES, FE_PLATFORM, "d2">>))>>),
            PDict(<<Item("url", RelativeUrl("d1"))>>)>>
    /\ parser_record.rec.image_urls = PList(<<HttpsUrl("d1")>>)
    /\ main_record.rec.image_urls = PList(<<HttpsUrl("d1")>>)

\* C8: in every record of main.py and of parser.py the type is the entity's,
\* "normal" when the entity has none, and one media branch has run: for the
\* type "video" image_urls is empty, for any other type video_url is empty.
C8_OneBranch ==
    /\ MainBuilt =>
          /\ main_record.rec.type = TypeOf(main_note_data)
          /\ TypeOf(main_note_data) = PStr(<<"video">>)
                => main_record.rec.image_urls = EmptyList
          /\ TypeOf(main_note_data) # PStr(<<"video">>)
                => main_record.rec.video_url = EmptyStr
    /\ ParserBuilt =>
          /\ parser_record.rec.type = TypeOf(ParserEntity)
          /\ TypeOf(ParserEntity) = PStr(<<"video">>)
                => parser_record.rec.image_urls = EmptyList
          /\ TypeOf(ParserEntity) # PStr(<<"video">>)
                => parser_record.rec.video_url = EmptyStr

\* A video entity that also holds images, in both implementations: the
\* record has the video and no image.
C8_Witness ==
    /\ MainBuilt
    /\ ParserBuilt
    /\ TypeOf(main_note_data) = PStr(<<"video">>)
    /\ ImageListParser(ParserEntity) # <<>>
    /\ main_record.rec.video_url # EmptyStr
    /\ main_record.rec.image_urls = EmptyList
    /\ parser_record.rec.image_urls = EmptyList

\* An entity without a type that also holds a video: the record has the
\* images and no video.
C8_DefaultType ==
    /\ MainBuilt
    /\ ParserBuilt
    /\ ~HasKey(main_note_data, "type")
    /\ HasKey(main_note_data, "video")
    /\ main_record.rec.type = PStr(<<"normal">>)
    /\ main_record.rec.video_url = EmptyStr
    /\ main_record.rec.image_urls # EmptyList
    /\ parser_record.rec.image_urls # EmptyList

(***************************************************************************)
(* Claims about the outcomes of schema resolution                          *)
(***************************************************************************)
\* C11: schema resolution (main.py) has two outcomes: note_data is a mapping,
\* the entity used, or the call fails with the entity-not-found error; and
\* when no candidate path ends in a mapping (it is absent, or it ends in
\* null, a scalar or a sequence) the call fails with the entity-not-found
\* error, no other error.
C11_TwoOutcomes ==
    main_record # NoRecord =>
        /\ main_record = Failed("EntityNotFound") \/ main_note_data.t = "dict"
        /\ MappingPaths(tree) = {} => main_record = Failed("EntityNotFound")

\* C11 for the trees in which no candidate path leads to any value.
C11_AbsentPaths ==
    (main_record # NoRecord /\ ExistingPaths(tree) = {})
        => main_record = Failed("EntityNotFound")

(***************************************************************************)
(* Claims about the desc of a record and the two implementations           *)
(***************************************************************************)
\* The desc of an entity, "" when it has none.
DescOf(entity) ==
    IF HasKey(entity, "desc") THEN Lookup(entity, "desc") ELSE EmptyStr

\* TRUE iff "#<text>[topic]#" with a non-empty text free of "#" and "["
\* starts at position i of s (1-based).
MarkupAt(s, i) ==
    /\ i >= 1 /\ i <= Len(s) /\ s[i] = HASH
    /\ \E r \in (i + 2)..(Len(s) - 3) :
          /\ \A j \in (i + 1)..(r - 1) : s[j] \notin {HASH, LBRK}
          /\ SubSeq(s, r, r + 3) = <<LBRK, TOPIC, RBRK, HASH>>

HasMarkup(s) == \E i \in 1..Len(s) : MarkupAt(s, i)

\* C14: in every record of parser.py and of main.py, desc is the entity's
\* desc after the hashtag cleanup: no "#<text>[topic]#" is left in it, each
\* being rewritten to "#<text>".
C14_DescCleaned ==
    /\ (MainBuilt /\ DescOf(main_note_data).t = "str")
          => /\ main_record.rec.desc = clean_topic_tags(DescOf(main_note_data))
             /\ ~HasMarkup(main_record.rec.desc.s)
    /\ (ParserBuilt /\ DescOf(ParserEntity).t = "str")
          => /\ parser_record.rec.desc = clean_topic_tags(DescOf(ParserEntity))
             /\ ~HasMarkup(parser_record.rec.desc.s)

\* C14 for parser.py alone.
C14_ParserDesc ==
    (ParserBuilt /\ DescOf(ParserEntity).t = "str")
        => /\ parser_record.rec.desc = clean_topic_tags(DescOf(ParserEntity))
           /\ ~HasMarkup(parser_record.rec.desc.s)

\* xs is made of elements of ys taken at increasing positions.
Subsequence(xs, ys) ==
    \E f \in [1..Len(xs) -> 1..Len(ys)] :
        /\ \A j \in 1..Len(xs) : xs[j] = ys[f[j]]
        /\ \A j \in 1..(Len(xs) - 1) : f[j] < f[j + 1]

\* C20: on a tree for which both implementations return a record, type and
\* title are equal; each of author_name, author_id, publish_time, video_url
\* that is not empty in parser.py's record has the same value in main.py's;
\* parser.py's image_urls is a subsequence of main.py's, in order; and
\* parser.py's desc is clean_topic_tags of main.py's desc.
C20_Related ==
    (MainBuilt /\ ParserBuilt) =>
        LET m == main_record.rec
            q == parser_record.rec
        IN /\ q.type = m.type
           /\ q.title = m.title
           /\ \A field \in {"author_name", "author_id", "publish_time", "video_url"} :
                 q[field] # EmptyStr => q[field] = m[field]
           /\ Subsequence(q.image_urls.xs, m.image_urls.xs)
           /\ q.desc = clean_topic_tags(m.desc)

\* Both records are built; parser.py's has an author and a desc that the
\* cleanup changed, and fewer images than main.py's.
C20_Witness ==
    /\ MainBuilt
    /\ ParserBuilt
    /\ parser_record.rec.author_name # EmptyStr
    /\ parser_record.rec.publish_time # EmptyStr
    /\ parser_record.rec.desc # main_record.rec.desc
    /\ parser_record.rec.image_urls # EmptyList

\* Both records are built and main.py's holds what parser.py's lacks: a
\* video_url, or more images.
C20_MainHasMore ==
    /\ MainBuilt
    /\ ParserBuilt
    /\ \/ parser_record.rec.video_url = EmptyStr /\ main_record.rec.video_url # EmptyStr
       \/ Len(parser_record.rec.image_urls.xs) < Len(main_record.rec.image_urls.xs)
    /\ parser_record.rec.image_urls # EmptyList \/ main_record.rec.video_url # EmptyStr

(***************************************************************************)
(* Claims relating the two extraction paths                                *)
(***************************************************************************)
\* What the statements after the regex attempt (the scanner path) return on
\* page h, whether or not the regex attempt succeeded on it.
RobustResult(h) ==
    LET start_idx == Find(h, NAME, 0) IN
    IF start_idx = -1 THEN Error("NameNotFound")
    ELSE LET start == Find(h, LB, start_idx) IN
         IF start = -1 THEN Error("JsonStartNotFound")
         ELSE LET found == Find(h, SCRIPT_END, start_idx)
                  bound == IF found = -1 THEN Len(h) ELSE found
                  st == ScanLoop(h, start, Min(bound, Len(h)), ScanInit(start))
                  json_str == Sanitize(Slice(h, start, st.json_end))
              IN IF st.brace_count # 0 THEN Error("UnbalancedObject")
                 ELSE IF JsonLoads(json_str)
                 THEN Value(json_str, start, st.json_end - 1, "robust")
                 ELSE Malformed(start, st.json_end - 1)

\* The scanner path of the state machine returns RobustResult.
RobustResultIsScannerPath ==
    (pc = "done" /\ (result.kind = "error" \/ result.via = "robust"))
        => result = RobustResult(html)

\* C17: on every page on which the fast regex path matches and its sanitized
\* capture parses, the scanner path succeeds too and recovers the same span,
\* so the returned tree does not depend on the path.
C17_PathsAgree ==
    (pc = "done" /\ result.kind = "value" /\ result.via = "fast")
        => LET robust == RobustResult(html) IN
           /\ robust.kind = "value"
           /\ robust.first = result.first
           /\ robust.last = result.last
           /\ robust.text = result.text

\* C17 for the pages whose first mention of the name is the assignment: when
\* the scanner path succeeds on such a page it recovers the same span.
C17_AgreeOnBalanced ==
    (/\ pc = "done" /\ result.kind = "value" /\ result.via = "fast"
     /\ \A a \in Assignments(html) : a = Find(html, NAME, 0))
        => LET robust == RobustResult(html) IN
           robust.kind = "value" => /\ robust.first = result.first
                                    /\ robust.last = result.last

(***************************************************************************)
(* clean_topic_tags applied to a text and to its own result                *)
(***************************************************************************)
MaxChunks == 7

WORD == "cats"

\* The pieces the texts are made of: "#", a word, "[topic]", a lone "[".
Chunks == {<<HASH>>, <<WORD>>, <<LBRK, TOPIC, RBRK>>, <<LBRK>>}

RECURSIVE Flatten(_)
Flatten(chunks) ==
    IF chunks = <<>> THEN <<>> ELSE Head(chunks) \o Flatten(Tail(chunks))

CleanTexts == {Flatten(chunks) : chunks \in SeqsUpTo(Chunks, MaxChunks)}

CleanInit ==
    /\ input_text \in {PStr(t) : t \in CleanTexts}
    /\ once = NotApplied
    /\ twice = NotApplied
    /\ ExtractIdle
    /\ NoteIdle
    /\ ScanIdle
    /\ LinkIdle
    /\ TestIdle

\* clean_topic_tags(text)
CleanOnce ==
    /\ once = NotApplied
    /\ once' = clean_topic_tags(input_text)
    /\ UNCHANGED <<input_text, twice>>
    /\ UNCHANGED notTextVars

\* clean_topic_tags(clean_topic_tags(text))
CleanTwice ==
    /\ once # NotApplied
    /\ twice = NotApplied
    /\ twice' = clean_topic_tags(once)
    /\ UNCHANGED <<input_text, once>>
    /\ UNCHANGED notTextVars

CleanNext == CleanOnce \/ CleanTwice

SpecClean == CleanInit /\ [][CleanNext]_vars

\* C13: clean_topic_tags is total and idempotent: it returns a text for every
\* text, cleaning the result again changes nothing, a text without
\* "#<text>[topic]#" is returned unchanged, and "#cats[topic]#" becomes "#cats".
C13_TotalIdempotent ==
    /\ once # NotApplied =>
          /\ once.t = "str"
          /\ ~HasMarkup(input_text.s) => once = input_text
          /\ input_text = PStr(<<HASH, WORD, LBRK, TOPIC, RBRK, HASH>>)
                => once = PStr(<<HASH, WORD>>)
    /\ twice # NotApplied => twice = once

\* C13 without the idempotence.
C13_TotalUnchangedExample ==
    once # NotApplied =>
        /\ once.t = "str"
        /\ ~HasMarkup(input_text.s) => once = input_text
        /\ input_text = PStr(<<HASH, WORD, LBRK, TOPIC, RBRK, HASH>>)
              => once = PStr(<<HASH, WORD>>)

\* The idempotence of C13 for the texts whose result holds no markup.
C13_IdempotentWhenClean ==
    (twice # NotApplied /\ ~HasMarkup(once.s)) => twice = once

(***************************************************************************)
(* The sanitizer applied to an object text and to its own result           *)
(***************************************************************************)
MaxText == 5

TextTokens == {UNDEF, NULLTOK, DIGIT, WS, DQ, BS}

SanitizeInit ==
    /\ input_text \in {PStr(t) : t \in SeqsUpTo(TextTokens, MaxText)}
    /\ once = NotApplied
    /\ twice = NotApplied
    /\ ExtractIdle
    /\ NoteIdle
    /\ ScanIdle
    /\ LinkIdle
    /\ TestIdle

\* json_str = re.sub(r'\bundefined\b', 'null', json_str)
SanitizeOnce ==
    /\ once = NotApplied
    /\ once' = PStr(Sanitize(input_text.s))
    /\ UNCHANGED <<input_text, twice>>
    /\ UNCHANGED notTextVars

\* The same substitution on the sanitized text.
SanitizeTwice ==
    /\ once # NotApplied
    /\ twice = NotApplied
    /\ twice' = PStr(Sanitize(once.s))
    /\ UNCHANGED <<input_text, once>>
    /\ UNCHANGED notTextVars

SanitizeNext == SanitizeOnce \/ SanitizeTwice

SpecSanitize == SanitizeInit /\ [][SanitizeNext]_vars

\* The token at position n (1-based) is part of a longer run of word
\* characters: a word character lies directly before or after it.
PartOfLongerWord(s, n) ==
    \/ n > 1 /\ IsWord(s[n - 1])
    \/ n < Len(s) /\ IsWord(s[n + 1])

RECURSIVE LiteralEnd(_, _)
LiteralEnd(s, k) ==
    IF k > Len(s) THEN 0
    ELSE IF s[k] = DQ THEN k
    ELSE IF s[k] = BS THEN LiteralEnd(s, k + 2)
    ELSE LiteralEnd(s, k + 1)

\* TRUE iff position n lies between the quotes of a string literal of s that
\* opens at or after k, k being outside every literal.
RECURSIVE InLiteral(_, _, _)
InLiteral(s, k, n) ==
    IF k > Len(s) THEN FALSE
    ELSE IF s[k] = DQ
         THEN LET e == LiteralEnd(s, k + 1) IN
              IF e = 0 THEN FALSE
              ELSE (k < n /\ n < e) \/ InLiteral(s, e + 1, n)
    ELSE InLiteral(s, k + 1, n)

\* C19: the sanitizer leaves the contents of quoted strings unchanged: it
\* alters only tokens outside every string literal, so a string value
\* holding the word undefined is parsed as written in the page.
C19_StringsUnchanged ==
    once # NotApplied =>
        \A n \in 1..Len(input_text.s) :
            InLiteral(input_text.s, 1, n) => once.s[n] = input_text.s[n]

\* C19 for the strings in which "undefined" is part of a longer word.
C19_LongerWordsUnchanged ==
    once # NotApplied =>
        \A n \in 1..Len(input_text.s) :
            (InLiteral(input_text.s, 1, n) /\ PartOfLongerWord(input_text.s, n))
                => once.s[n] = input_text.s[n]

(***************************************************************************)
(* The scanner of extract_initial_state, one iteration at a time           *)
(***************************************************************************)
MaxScan == 4

\* Pages on which the scanner path reaches the scan: the name, then a "{".
ScanPages ==
    { h \o <<LB>> \o b \o t :
        h \in {<<NAME, EQ>>, <<NAME, SEMI>>, <<SCRIPT_END, NAME, WS>>, <<NAME, SCRIPT_END>>},
        b \in SeqsUpTo(BodyTokens, MaxScan)
              \cup {<<DQ, DIGIT, DQ, COLON, DQ, BS, DQ, RB, DQ, RB>>,
                    <<SQ, DIGIT, SQ, COLON, SQ, RB, DQ, SQ, RB>>,
                    <<DQ, DIGIT, DQ, COLON, LB, DQ, LB, DQ, COLON, LB, RB, RB, WS, RB>>},
        t \in {<<>>, <<RB, SCRIPT_END>>, <<SCRIPT_END, DQ, RB, SCRIPT_END>>} }

\* The state before the first iteration (src/parser.py:91-110).
ScanStart ==
    /\ html \in ScanPages
    /\ pc = "scan"
    /\ json_start = Find(html, LB, Find(html, NAME, 0))
    /\ script_end = IF Find(html, SCRIPT_END, Find(html, NAME, 0)) = -1
                    THEN Len(html)
                    ELSE Find(html, SCRIPT_END, Find(html, NAME, 0))
    /\ brace_count = 0
    /\ json_end = json_start
    /\ in_string = FALSE
    /\ escape_next = FALSE
    /\ in_single_quote = FALSE
    /\ stopped = FALSE
    /\ scan_i = json_start
    /\ result = NoResult
    /\ NoteIdle
    /\ TextIdle
    /\ TestIdle
    /\ LinkIdle

\* The locals of the loop as one record.
ScanState ==
    [brace_count |-> brace_count, json_end |-> json_end, in_string |-> in_string,
     escape_next |-> escape_next, in_single_quote |-> in_single_quote,
     stopped |-> stopped]

\* One iteration of the loop on html[scan_i]; a break leaves the loop
\* variable where it is.
ScanIteration ==
    /\ pc = "scan"
    /\ ~stopped
    /\ scan_i < Min(script_end, Len(html))
    /\ LET st == ScanStep(ScanState, At(html, scan_i), scan_i) IN
       /\ brace_count' = st.brace_count
       /\ json_end' = st.json_end
       /\ in_string' = st.in_string
       /\ escape_next' = st.escape_next
       /\ in_single_quote' = st.in_single_quote
       /\ stopped' = st.stopped
       /\ scan_i' = IF st.stopped THEN scan_i ELSE scan_i + 1
    /\ UNCHANGED <<html, pc, json_start, script_end, result>>
    /\ UNCHANGED notScanVars

\* The loop is left, by break or at search_end, and brace_count is tested.
EndScan ==
    /\ pc = "scan"
    /\ stopped \/ scan_i >= Min(script_end, Len(html))
    /\ IF brace_count # 0
       THEN result' = Error("UnbalancedObject") /\ pc' = "done"
       ELSE result' = result /\ pc' = "parse"
    /\ UNCHANGED <<html, json_start, script_end, brace_count, json_end>>
    /\ UNCHANGED scanVars
    /\ UNCHANGED notScanVars

\* ParseSpan on the span the iterations found.
ParseScanned ==
    /\ ParseSpan
    /\ UNCHANGED scanVars

ScanNext == ScanIteration \/ EndScan \/ ParseScanned

SpecScan == ScanStart /\ [][ScanNext]_vars

\* The iterations, once the loop is left, computed what ScanLoop computes.
IterationsAreScanLoop ==
    pc # "scan" =>
        LET st == ScanLoop(html, json_start, Min(script_end, Len(html)),
                           ScanInit(json_start))
        IN /\ brace_count = st.brace_count
           /\ json_end = st.json_end
           /\ result = RobustResult(html) \/ pc = "parse"

\* The state part of C18.
ScannerInvariant ==
    /\ ~(in_string /\ in_single_quote)
    /\ brace_count >= 0
    /\ (pc = "scan" /\ scan_i > json_start /\ ~stopped) => brace_count >= 1
    /\ stopped => /\ brace_count = 0
                  /\ json_end = scan_i + 1
                  /\ At(html, scan_i) = RB

\* The step part of C18.
ScannerStep ==
    /\ (escape_next /\ scan_i' # scan_i)
          => /\ ~escape_next'
             /\ brace_count' = brace_count
             /\ in_string' = in_string
             /\ in_single_quote' = in_single_quote
             /\ ~stopped'
    /\ (~escape_next /\ escape_next') => At(html, scan_i) = BS
    /\ (brace_count >= 1 /\ brace_count' = 0) => (stopped' /\ ~stopped)
    /\ stopped => UNCHANGED <<scanVars, brace_count, json_end>>

\* C18: at every step of the scan the two quote flags are never both set and
\* the depth is never negative; after the opening "{" and until the scan
\* stops the depth is at least 1; an escape flag set by a backslash is
\* cleared by exactly the next character, which changes neither the depth
\* nor a quote flag; the scan stops at the first position where the depth
\* returns to 0.
C18_ScannerInvariants == []ScannerInvariant /\ [][ScannerStep]_vars

\* A scan that stopped at the closing brace after passing a backslash, a
\* double quote and another brace.
C18_Witness ==
    /\ stopped
    /\ \E k \in json_start..scan_i : At(html, k) = BS
    /\ \E k \in json_start..scan_i : At(html, k) = DQ
    /\ \E k \in (json_start + 1)..(scan_i - 1) : At(html, k) \in {LB, RB}

(***************************************************************************)
(* The tree json.loads returns on a text for which JsonLoads holds.  A     *)
(* property name is written as one token in the pages of the model and is  *)
(* that token; for a repeated name the last value wins, as in Python.      *)
(***************************************************************************)
\* The str of a string literal's body: \" and \\ stand for the second token.
RECURSIVE Unescape(_)
Unescape(body) ==
    IF body = <<>> THEN <<>>
    ELSE IF Head(body) = BS /\ Len(body) >= 2
         THEN <<body[2]>> \o Unescape(SubSeq(body, 3, Len(body)))
    ELSE <<Head(body)>> \o Unescape(Tail(body))

\* The int written with n digits "1".
RECURSIVE Repunit(_)
Repunit(n) == IF n <= 0 THEN 0 ELSE 10 * Repunit(n - 1) + 1

\* dict assignment d[k] = v: a new key goes last, an old key keeps its place.
SetItem(items, k, v) ==
    IF \E n \in 1..Len(items) : items[n].k = k
    THEN [n \in 1..Len(items) |-> IF items[n].k = k THEN Item(k, v) ELSE items[n]]
    ELSE Append(items, Item(k, v))

KeyName(body) == IF Len(body) = 1 THEN body[1] ELSE ""

RECURSIVE TreeValue(_, _)
RECURSIVE TreeMembers(_, _, _)
\* The members of an object from the property name at i: the dict and the
\* index after the closing brace.
TreeMembers(s, i, items) ==
    LET k == JsonString(s, i + 1)
        c == SkipWs(s, k)
        val == TreeValue(s, SkipWs(s, c + 1))
        m == SkipWs(s, val.e)
        now == SetItem(items, KeyName(Unescape(Slice(s, i + 1, k - 1))), val.v)
    IN IF Holds(s, m, RB) THEN [e |-> m + 1, v |-> PDict(now)]
       ELSE TreeMembers(s, SkipWs(s, m + 1), now)

\* The value that starts at i and the index after it.
TreeValue(s, i) ==
    IF At(s, i) = DQ
    THEN LET e == JsonString(s, i + 1) IN
         [e |-> e, v |-> PStr(Unescape(Slice(s, i + 1, e - 1)))]
    ELSE IF At(s, i) = LB
    THEN LET j == SkipWs(s, i + 1) IN
         IF Holds(s, j, RB) THEN [e |-> j + 1, v |-> EmptyDict]
         ELSE TreeMembers(s, j, <<>>)
    ELSE IF At(s, i) = DIGIT
    THEN LET e == JsonNumber(s, i) IN [e |-> e, v |-> PInt(Repunit(e - i))]
    ELSE [e |-> i + 1, v |-> PNone]

JsonTree(s) == TreeValue(s, SkipWs(s, 0)).v

\* What extract_initial_state returns or raises on page h.
ExtractResult(h) ==
    LET m == RegexSearch(h)
        json_str == Sanitize(Slice(h, m[1], m[2] + 1))
    IN IF m # <<-1, -1>> /\ JsonLoads(json_str)
       THEN Value(json_str, m[1], m[2], "fast")
       ELSE RobustResult(h)

\* The state machine of SpecExtract returns ExtractResult.
ExtractResultIsStateMachine == pc = "done" => result = ExtractResult(html)

(***************************************************************************)
(* The meta tags of a page (main.py).  The text                            *)
(*   <meta name="og:title" content="                                       *)
(* is one token; the content is the run of tokens after it, up to the      *)
(* quote that closes it.                                                   *)
(***************************************************************************)
META_TITLE == "<meta og:title>"
META_DESCRIPTION == "<meta description>"
META_OG_DESCRIPTION == "<meta og:description>"
META_VIDEO == "<meta og:video>"
META_IMAGE == "<meta og:image>"
META_TYPE == "<meta og:type>"
META_URL == "<meta og:url>"
SUFFIX == " - xiaohongshu"
SLASH == "/"
QMARK == "?"
AMP == "&"
EXPLORE == "explore"

\* The least position > p holding a quote, or 0.
RECURSIVE QuoteAfter(_, _)
QuoteAfter(s, p) ==
    IF p >= Len(s) THEN 0
    ELSE IF s[p + 1] \in {DQ, SQ} THEN p + 1
    ELSE QuoteAfter(s, p + 1)

\* The group ([^"']+) of the match that starts at the tag at position p, or
\* <<>> when the pattern does not match there.
MetaContentAt(s, p) ==
    LET r == QuoteAfter(s, p) IN
    IF r > p + 1 THEN SubSeq(s, p + 1, r - 1) ELSE <<>>

\* re.findall: the contents of all the tags of that name, in page order.
RECURSIVE MetaContentsFrom(_, _, _)
MetaContentsFrom(s, tag, p) ==
    IF p > Len(s) THEN <<>>
    ELSE IF s[p] = tag /\ MetaContentAt(s, p) # <<>>
         THEN <<MetaContentAt(s, p)>> \o MetaContentsFrom(s, tag, QuoteAfter(s, p) + 1)
    ELSE MetaContentsFrom(s, tag, p + 1)

extract_all_meta_content(h, tag) == MetaContentsFrom(h, tag, 1)

\* re.search: the first content, or "".
extract_meta_content(h, tag) ==
    IF extract_all_meta_content(h, tag) = <<>> THEN <<>>
    ELSE extract_all_meta_content(h, tag)[1]

extract_video_from_meta(h) == extract_meta_content(h, META_VIDEO)

\* title.replace(" - ...", "").strip()
RECURSIVE Without(_, _)
Without(s, tok) ==
    IF s = <<>> THEN <<>>
    ELSE IF Head(s) = tok THEN Without(Tail(s), tok)
    ELSE <<Head(s)>> \o Without(Tail(s), tok)

RECURSIVE Strip(_)
Strip(s) ==
    IF s = <<>> THEN <<>>
    ELSE IF Head(s) = WS THEN Strip(Tail(s))
    ELSE IF s[Len(s)] = WS THEN Strip(SubSeq(s, 1, Len(s) - 1))
    ELSE s

\* The end (exclusive) of the run of tokens without "/" and "?" from p.
RECURSIVE IdEnd(_, _)
IdEnd(s, p) ==
    IF p > Len(s) \/ s[p] \in {SLASH, SLASHES, QMARK} THEN p ELSE IdEnd(s, p + 1)

\* re.search(r'/explore/([^/?]+)', og_url): the group, or "".
RECURSIVE ExploreIdFrom(_, _)
ExploreIdFrom(s, p) ==
    IF p + 3 > Len(s) THEN <<>>
    ELSE IF /\ SubSeq(s, p, p + 2) = <<SLASH, EXPLORE, SLASH>>
            /\ IdEnd(s, p + 3) > p + 3
         THEN SubSeq(s, p + 3, IdEnd(s, p + 3) - 1)
    ELSE ExploreIdFrom(s, p + 1)

\* url.replace("http://", "https://", 1) if url.startswith("http://") else url
UpgradeMetaImage(u) ==
    IF StartsWith(u, <<HTTP, SLASHES>>)
    THEN ReplaceFirst(u, <<HTTP, SLASHES>>, <<HTTPS, SLASHES>>)
    ELSE u

\* The record made of the meta tags alone.
parse_note_data_from_meta(h) ==
    LET og_title == extract_meta_content(h, META_TITLE)
        title == IF og_title # <<>> /\ HasToken(og_title, SUFFIX)
                 THEN Strip(Without(og_title, SUFFIX))
                 ELSE og_title
        description == extract_meta_content(h, META_DESCRIPTION)
        desc == IF description = <<>> THEN extract_meta_content(h, META_OG_DESCRIPTION)
                ELSE description
        video_url == extract_video_from_meta(h)
        found == extract_all_meta_content(h, META_IMAGE)
        image_urls == [n \in 1..Len(found) |-> PStr(UpgradeMetaImage(found[n]))]
        og_type == extract_meta_content(h, META_TYPE)
        note_type == IF og_type # <<>> THEN og_type
                     ELSE IF video_url # <<>> THEN <<"video">>
                     ELSE <<"normal">>
        og_url == extract_meta_content(h, META_URL)
        author_id == IF og_url = <<>> THEN <<>> ELSE ExploreIdFrom(og_url, 1)
    IN Record(PStr(note_type), PStr(title), PStr(desc), EmptyStr, PStr(author_id),
              EmptyStr, PStr(video_url), PList(image_urls))

(***************************************************************************)
(* URLs: a scheme, "//", a host, path segments, "?" and parameters joined  *)
(* by "&"; a parameter "name=value" is one token.                          *)
(***************************************************************************)
XHSLINK == "xhslink.com"
XHS_HOST == "www.xiaohongshu.com"
DISCOVERY == "discovery/item"
PC_USER == "xsec_source=pc_user"
P_SOURCE == "source=app"
P_XHSSHARE == "xhsshare=wx"
P_TOKEN == "xsec_token=t"
NOTE_ID == "id1"
PCT_SLASH == "%2F"

\* urllib.parse.unquote
Unquote(u) == [n \in 1..Len(u) |-> IF u[n] = PCT_SLASH THEN SLASH ELSE u[n]]

\* The parameters of a query, in order, and a query made of parameters.
RECURSIVE ParamsOf(_)
ParamsOf(query) ==
    IF query = <<>> THEN <<>>
    ELSE IF Head(query) = AMP THEN ParamsOf(Tail(query))
    ELSE <<Head(query)>> \o ParamsOf(Tail(query))

RECURSIVE JoinParams(_)
JoinParams(params) ==
    IF params = <<>> THEN <<>>
    ELSE IF Len(params) = 1 THEN params
    ELSE <<Head(params), AMP>> \o JoinParams(Tail(params))

\* clean_share_url (parser.py): a discovery/item URL loses its source and
\* xhsshare parameters, and its "?" when no parameter is left.
clean_share_url(url) ==
    IF ~HasToken(url, DISCOVERY) THEN url
    ELSE LET q == Occurrence(url, <<QMARK>>, 1) IN
         IF q = 0 THEN url
         ELSE LET kept == Without(Without(ParamsOf(SubSeq(url, q + 1, Len(url))),
                                          P_SOURCE), P_XHSSHARE)
              IN SubSeq(url, 1, q - 1)
                 \o (IF kept = <<>> THEN <<>> ELSE <<QMARK>> \o JoinParams(kept))

\* The else branch of step 1 of parse_xhs_link.
WithScheme(url) ==
    IF StartsWith(url, <<HTTP, SLASHES>>) \/ StartsWith(url, <<HTTPS, SLASHES>>)
    THEN url
    ELSE <<HTTPS, SLASHES>> \o url

SHARE_SHORT == "share short link"
SHARE_LONG == "share long link"
EXPLORE_LONG == "explore page long link"
USER_LONG == "user page long link"

\* A get_link_type that tests "explore" before "discovery/item".
get_link_type_ExploreFirst(url) ==
    IF HasToken(url, XHSLINK) THEN SHARE_SHORT
    ELSE IF HasToken(url, EXPLORE)
         THEN IF HasToken(url, PC_USER) THEN USER_LONG ELSE EXPLORE_LONG
    ELSE IF HasToken(url, DISCOVERY) THEN SHARE_LONG
    ELSE SHARE_SHORT

get_link_type(url) ==
    IF HasToken(url, XHSLINK) THEN SHARE_SHORT
    ELSE IF HasToken(url, DISCOVERY) THEN SHARE_LONG
    ELSE IF HasToken(url, EXPLORE)
         THEN IF HasToken(url, PC_USER) THEN USER_LONG ELSE EXPLORE_LONG
    ELSE SHARE_SHORT

\* (use_desktop_ua, extraction_path)
get_ua_and_extraction_path(type) ==
    IF type = SHARE_SHORT THEN <<FALSE, "JSON">>
    ELSE IF type = SHARE_LONG THEN <<TRUE, "JSON+meta">>
    ELSE IF type = EXPLORE_LONG THEN <<FALSE, "JSON">>
    ELSE IF type = USER_LONG THEN <<FALSE, "JSON">>
    ELSE <<FALSE, "JSON">>

\* A get_redirect_url that takes the Location of a response of any status.
get_redirect_url_AnyStatus(status, location) == [kind |-> "url", url |-> Unquote(location)]

\* get_redirect_url on a response with that status and Location header.
get_redirect_url(status, location) ==
    IF status = 302 THEN [kind |-> "url", url |-> Unquote(location)]
    ELSE Failed("NoRedirect")

\* fetch_page on a response with that status and body.
fetch_page(status, body) ==
    IF status = 200 THEN [kind |-> "page", html |-> body]
    ELSE Failed("FetchFailed")

(***************************************************************************)
(* The links, the responses and the pages of one call of parse_xhs_link    *)
(***************************************************************************)
Str(tok) == <<DQ, tok, DQ>>

Member(k, value) == Str(k) \o <<COLON>> \o value

RECURSIVE Joined(_)
Joined(members) ==
    IF members = <<>> THEN <<>>
    ELSE IF Len(members) = 1 THEN members[1]
    ELSE members[1] \o <<COMMA, WS>> \o Joined(Tail(members))

Object(members) == <<LB>> \o Joined(members) \o <<RB>>

NormalEntity ==
    Object(<<Member("type", Str("normal")), Member("title", Str("T")),
             Member("desc", <<DQ, HASH, "T", LBRK, TOPIC, RBRK, HASH, DQ>>),
             Member("time", <<UNDEF>>)>>)

VideoEntity == Object(<<Member("type", Str("video")), Member("title", Str("V"))>>)

UnderPath1(entity) ==
    Object(<<Member("noteData",
                    Object(<<Member("data", Object(<<Member("noteData", entity)>>))>>))>>)

UnderPath2(entity) ==
    Object(<<Member("note",
                    Object(<<Member("noteDetailMap",
                                    Object(<<Member("id1",
                                                    Object(<<Member("note", entity)>>))>>))>>))>>)

Script(object) == <<NAME, WS, EQ, WS>> \o object \o <<SCRIPT_END>>

PageBodies ==
    { Script(UnderPath1(NormalEntity)),
      Script(UnderPath2(NormalEntity)),
      Script(UnderPath1(VideoEntity)),
      Script(UnderPath2(<<NULLTOK>>)),
      Script(Object(<<>>)),
      Script(<<LB, DIGIT, RB>>),
      <<NAME, EQ, LB, LB, RB, SCRIPT_END>>,
      <<NAME, SCRIPT_END>>,
      <<>> }

MetaHeads ==
    { <<>>,
      <<META_DESCRIPTION, "D", SQ>>,
      <<META_TITLE, "M", WS, SUFFIX, DQ,
        META_IMAGE, HTTP, SLASHES, "img1", DQ, META_IMAGE, SLASHES, "img2", DQ,
        META_VIDEO, HTTPS, SLASHES, "v", MP4, DQ,
        META_URL, HTTPS, SLASHES, XHS_HOST, SLASH, EXPLORE, SLASH, NOTE_ID, QMARK, P_TOKEN, DQ>> }

LinkPages == {m \o b : m \in MetaHeads, b \in PageBodies}

ShareLongUrl ==
    <<HTTPS, SLASHES, XHS_HOST, SLASH, DISCOVERY, SLASH, NOTE_ID,
      QMARK, P_SOURCE, AMP, P_TOKEN, AMP, P_XHSSHARE>>

ExploreUrl == <<HTTPS, SLASHES, XHS_HOST, SLASH, EXPLORE, SLASH, NOTE_ID, QMARK, P_TOKEN>>

UserPageUrl ==
    <<HTTP, SLASHES, XHS_HOST, SLASH, EXPLORE, SLASH, NOTE_ID, QMARK, PC_USER>>

InputUrls ==
    { <<HTTPS, SLASHES, XHSLINK, SLASH, "abc">>,
      <<HTTP, SLASHES, XHSLINK, SLASH, "abc">>,
      ShareLongUrl,
      <<XHS_HOST, SLASH, DISCOVERY, SLASH, NOTE_ID, QMARK, P_SOURCE>>,
      ExploreUrl,
      <<XHS_HOST, SLASH, EXPLORE, SLASH, NOTE_ID>>,
      UserPageUrl,
      <<HTTPS, SLASHES, XHS_HOST, SLASH, "user", SLASH, NOTE_ID>> }

\* The Location headers of the responses to a short link.
Locations ==
    { ShareLongUrl, ExploreUrl,
      <<HTTPS, SLASHES, XHS_HOST, PCT_SLASH, DISCOVERY, PCT_SLASH, NOTE_ID, QMARK, P_XHSSHARE>> }

RedirectStatuses == {302, 301, 200, 404}

FetchStatuses == {200, 403, 404}

LinkInit ==
    /\ impl \in {"parser", "main"}
    /\ input_url \in InputUrls
    /\ full_url = <<>>
    /\ link_pc = "start"
    /\ stages = <<>>
    /\ redirect_status = 0
    /\ fetch_status = 0
    /\ link_type = ""
    /\ use_desktop_ua = FALSE
    /\ extraction_path = ""
    /\ link_result = NoRecord
    /\ ExtractIdle
    /\ NoteIdle
    /\ ScanIdle
    /\ TextIdle
    /\ TestIdle

\* Where the call goes on after step 1.
AfterStep1 == IF impl = "parser" THEN "clean" ELSE "route"

\* The call is left with an exception.
Raised(failure) ==
    /\ link_result' = failure
    /\ link_pc' = "done"

\* Step 1 for a short link: get_redirect_url receives a response.
Resolve ==
    /\ link_pc = "start"
    /\ HasToken(input_url, XHSLINK)
    /\ \E status \in RedirectStatuses, location \in Locations :
          LET got == get_redirect_url(status, location) IN
          /\ redirect_status' = status
          /\ IF got.kind = "url"
             THEN /\ full_url' = got.url
                  /\ link_pc' = AfterStep1
                  /\ link_result' = link_result
             ELSE /\ Raised(got)
                  /\ full_url' = full_url
    /\ stages' = Append(stages, "resolve")
    /\ UNCHANGED <<impl, input_url, fetch_status, link_type, use_desktop_ua,
                   extraction_path>>
    /\ UNCHANGED <<extractVars, noteVars, scanVars, textVars, testVars>>

\* Step 1 for any other link: the scheme is added when it is missing.
TakeLongLink ==
    /\ link_pc = "start"
    /\ ~HasToken(input_url, XHSLINK)
    /\ full_url' = WithScheme(input_url)
    /\ link_pc' = AfterStep1
    /\ UNCHANGED <<impl, input_url, stages, redirect_status, fetch_status, link_type,
                   use_desktop_ua, extraction_path, link_result>>
    /\ UNCHANGED <<extractVars, noteVars, scanVars, textVars, testVars>>

\* Step 2 of parser.py: full_url = clean_share_url(full_url).
CleanShareUrl ==
    /\ link_pc = "clean"
    /\ full_url' = clean_share_url(full_url)
    /\ link_pc' = "fetch"
    /\ stages' = Append(stages, "clean")
    /\ UNCHANGED <<impl, input_url, redirect_status, fetch_status, link_type,
                   use_desktop_ua, extraction_path, link_result>>
    /\ UNCHANGED <<extractVars, noteVars, scanVars, textVars, testVars>>

\* Steps 2 and 3 of main.py: the link type, the UA and the extraction path.
Route ==
    /\ link_pc = "route"
    /\ LET type == IF HasToken(input_url, XHSLINK) THEN SHARE_SHORT
                   ELSE get_link_type(full_url)
       IN /\ link_type' = type
          /\ use_desktop_ua' = get_ua_and_extraction_path(type)[1]
          /\ extraction_path' = get_ua_and_extraction_path(type)[2]
    /\ link_pc' = "fetch"
    /\ stages' = Append(stages, "route")
    /\ UNCHANGED <<impl, input_url, full_url, redirect_status, fetch_status, link_result>>
    /\ UNCHANGED <<extractVars, noteVars, scanVars, textVars, testVars>>

\* html = await fetch_page(full_url): fetch_page receives a response.
FetchPage ==
    /\ link_pc = "fetch"
    /\ \E status \in FetchStatuses, body \in LinkPages :
          LET got == fetch_page(status, body) IN
          /\ fetch_status' = status
          /\ IF got.kind = "page"
             THEN /\ html' = got.html
                  /\ link_pc' = "extract"
                  /\ link_result' = link_result
             ELSE /\ Raised(got)
                  /\ html' = html
    /\ stages' = Append(stages, "fetch")
    /\ UNCHANGED <<impl, input_url, full_url, redirect_status, link_type,
                   use_desktop_ua, extraction_path>>
    /\ UNCHANGED <<pc, json_start, script_end, brace_count, json_end, result>>
    /\ UNCHANGED <<noteVars, scanVars, textVars, testVars>>

\* TRUE iff the call runs the try block of the "JSON+meta" path of parse_link.
InTry == impl = "main" /\ extraction_path = "JSON+meta"

\* initial_state = extract_initial_state(html): the tree goes on to
\* parse_note_data, an exception leaves the call, or the try block for its
\* except clause.
ExtractState ==
    /\ link_pc = "extract"
    /\ impl = "parser" \/ extraction_path \in {"JSON", "JSON+meta"}
    /\ result' = ExtractResult(html)
    /\ tree' = IF result'.kind = "value" THEN JsonTree(result'.text) ELSE tree
    /\ link_pc' = IF result'.kind = "value" THEN "parse"
                  ELSE IF InTry THEN "meta"
                  ELSE "done"
    /\ link_result' = IF result'.kind = "value" \/ InTry THEN link_result
                      ELSE Failed(result'.err)
    /\ stages' = Append(stages, "extract")
    /\ UNCHANGED <<impl, input_url, full_url, redirect_status, fetch_status, link_type,
                   use_desktop_ua, extraction_path>>
    /\ UNCHANGED <<html, pc, json_start, script_end, brace_count, json_end>>
    /\ UNCHANGED <<main_note_data, main_user_data, main_record, parser_record>>
    /\ UNCHANGED <<scanVars, textVars, testVars>>

\* The record of the try block: a video record without video_url takes the
\* content of the og:video tag when there is one.
Supplemented(record) ==
    IF /\ record.rec.type = PStr(<<"video">>)
       /\ ~Truthy(record.rec.video_url)
       /\ extract_video_from_meta(html) # <<>>
    THEN [record EXCEPT !.rec.video_url = PStr(extract_video_from_meta(html))]
    ELSE record

\* note_data = parse_note_data(initial_state) in parser.py: the record is
\* returned, an exception leaves the call.
ParseNoteParser ==
    /\ link_pc = "parse"
    /\ impl = "parser"
    /\ parser_record' = parser_parse_note_data(tree)
    /\ link_result' = parser_record'
    /\ link_pc' = "done"
    /\ stages' = Append(stages, "parse")
    /\ UNCHANGED <<impl, input_url, full_url, redirect_status, fetch_status, link_type,
                   use_desktop_ua, extraction_path>>
    /\ UNCHANGED <<tree, main_note_data, main_user_data, main_record>>
    /\ UNCHANGED <<extractVars, scanVars, textVars, testVars>>

\* note_data = parse_note_data(initial_state) in main.py's parse_link, and in
\* the try block the supplement from the meta tags; an exception leaves the
\* call, or the try block for its except clause.
ParseNoteMain ==
    /\ link_pc = "parse"
    /\ impl = "main"
    /\ main_record' = main_parse_note_data(tree)
    /\ link_pc' = IF main_record'.kind # "record" /\ InTry THEN "meta" ELSE "done"
    /\ link_result' = IF main_record'.kind = "record"
                      THEN IF InTry THEN Supplemented(main_record') ELSE main_record'
                      ELSE IF InTry THEN link_result
                      ELSE main_record'
    /\ stages' = Append(stages, "parse")
    /\ UNCHANGED <<impl, input_url, full_url, redirect_status, fetch_status, link_type,
                   use_desktop_ua, extraction_path>>
    /\ UNCHANGED <<tree, main_note_data, main_user_data, parser_record>>
    /\ UNCHANGED <<extractVars, scanVars, textVars, testVars>>

\* except Exception: note_data = parse_note_data_from_meta(html)
MetaFallback ==
    /\ link_pc = "meta"
    /\ link_result' = parse_note_data_from_meta(html)
    /\ link_pc' = "done"
    /\ stages' = Append(stages, "meta")
    /\ UNCHANGED <<impl, input_url, full_url, redirect_status, fetch_status, link_type,
                   use_desktop_ua, extraction_path>>
    /\ UNCHANGED <<extractVars, noteVars, scanVars, textVars, testVars>>

LinkNext ==
    \/ Resolve
    \/ TakeLongLink
    \/ CleanShareUrl
    \/ Route
    \/ FetchPage
    \/ ExtractState
    \/ ParseNoteParser
    \/ ParseNoteMain
    \/ MetaFallback

SpecLink == LinkInit /\ [][LinkNext]_vars

(***************************************************************************)
(* Claims about one call of parse_xhs_link                                 *)
(***************************************************************************)
HasStage(stage) == \E n \in 1..Len(stages) : stages[n] = stage

LastStage == IF stages = <<>> THEN "" ELSE stages[Len(stages)]

\* What parse_note_data raised or returned in this call.
NoteOutcome == IF impl = "main" THEN main_record ELSE parser_record

\* The fatal condition the call has hit, "" when it has hit none.
FatalCondition ==
    IF result.kind = "error" THEN result.err
    ELSE IF NoteOutcome = Failed("EntityNotFound") THEN "EntityNotFound"
    ELSE ""

\* The call ended, with the fatal condition as its error, in the stage that
\* hit it.
EndedWithFatal ==
    /\ link_pc = "done"
    /\ link_result.kind = "error"
    /\ link_result.err = FatalCondition
    /\ LastStage = IF result.kind = "error" THEN "extract" ELSE "parse"

\* C12: whenever extraction or schema resolution hits a fatal condition
\* (not found, unbalanced object, malformed object, entity not found) the
\* call ends with that error: nothing is attempted afterwards and no record
\* is returned.
C12_FatalEndsCall == FatalCondition # "" => EndedWithFatal

\* C12 for the calls outside the try block of main.py's "JSON+meta" path:
\* all of parser.py's, and main.py's on the "JSON" path.
C12_OutsideTry == (FatalCondition # "" /\ ~InTry) => EndedWithFatal

\* In the try block a fatal condition never ends the call: the record of the
\* meta tags is returned.
C12_InTryDegraded ==
    (FatalCondition # "" /\ InTry /\ link_pc = "done")
        => /\ link_result = parse_note_data_from_meta(html)
           /\ LastStage = "meta"

\* The place of a stage in the order resolve, clean, fetch, extract, parse.
StageRank(stage) ==
    CASE stage = "resolve" -> 1
      [] stage = "clean" -> 2
      [] stage = "fetch" -> 3
      [] stage = "extract" -> 4
      [] stage = "parse" -> 5
      [] OTHER -> 0

IsShortLink == HasToken(input_url, XHSLINK)

\* C16: in every run of parser.py's parse_xhs_link the stages happen in the
\* order resolve (only for an input containing "xhslink.com"), clean, fetch,
\* extract, parse, each at most once; a short link is fetched only after its
\* resolution received a 302; extraction and parsing run only on a page
\* received with status 200; a resolution status other than 302 or a fetch
\* status other than 200 fails the call, no later stage runs and no record is
\* returned.
C16_StageOrder ==
    impl = "parser" =>
        /\ \A n \in 1..Len(stages) : StageRank(stages[n]) >= 1
        /\ \A n \in 1..(Len(stages) - 1) : StageRank(stages[n]) < StageRank(stages[n + 1])
        /\ HasStage("resolve") => IsShortLink
        /\ (IsShortLink /\ stages # <<>>) => stages[1] = "resolve"
        /\ HasStage("fetch") => /\ HasStage("clean")
                                /\ IsShortLink => redirect_status = 302
        /\ HasStage("extract") => HasStage("fetch") /\ fetch_status = 200
        /\ HasStage("parse") => HasStage("extract") /\ result.kind = "value"
        /\ redirect_status \notin {0, 302}
              => /\ link_pc = "done"
                 /\ link_result = Failed("NoRedirect")
                 /\ stages = <<"resolve">>
        /\ fetch_status \notin {0, 200}
              => /\ link_pc = "done"
                 /\ link_result = Failed("FetchFailed")
                 /\ LastStage = "fetch"
        /\ link_result.kind = "record"
              => /\ HasStage("parse")
                 /\ LastStage = "parse"
                 /\ fetch_status = 200

\* A call of parser.py on a short link that ran all five stages and returned
\* a record.
C16_Witness ==
    /\ impl = "parser"
    /\ IsShortLink
    /\ stages = <<"resolve", "clean", "fetch", "extract", "parse">>
    /\ link_result.kind = "record"

\* A call of parser.py on a short link that failed at the fetch, after a
\* resolution that received a 302.
C16_FetchFailed ==
    /\ impl = "parser"
    /\ IsShortLink
    /\ redirect_status = 302
    /\ fetch_status = 404
    /\ link_pc = "done"


(***************************************************************************)
(* test_single_link: the routing of a link and the call it makes           *)
(***************************************************************************)
MaxMarks == 2

P_WEBSHARE == "source=webshare"
P_PC_WEB == "xhsshare=pc_web"
PC_SHARE == "xsec_source=pc_share"
PC_FEED == "xsec_source=pc_feed"
MOBILE == "mobile"
DESKTOP == "desktop"

ShortLink(id) == <<HTTP, SLASHES, XHSLINK, SLASH, "o", SLASH, id>>

LongLink(page, id, source) ==
    <<HTTPS, SLASHES, XHS_HOST, SLASH, page, SLASH, id, QMARK>>
    \o (IF page = DISCOVERY THEN <<P_WEBSHARE, AMP, P_PC_WEB, AMP>> ELSE <<>>)
    \o <<P_TOKEN, AMP, source>>

TEST_LINKS ==
    { [url |-> ShortLink("67cBgM4yF9z"), expected_ua |-> MOBILE, expected_path |-> "JSON"],
      [url |-> ShortLink("AOHR9EgF5kp"), expected_ua |-> MOBILE, expected_path |-> "JSON"],
      [url |-> LongLink(DISCOVERY, "68ecb777", PC_SHARE),
       expected_ua |-> DESKTOP, expected_path |-> "JSON+meta"],
      [url |-> LongLink(DISCOVERY, "68fe055e", PC_SHARE),
       expected_ua |-> DESKTOP, expected_path |-> "JSON+meta"],
      [url |-> LongLink(EXPLORE, "69091715", PC_FEED),
       expected_ua |-> MOBILE, expected_path |-> "JSON"],
      [url |-> LongLink(EXPLORE, "6907f979", PC_FEED),
       expected_ua |-> MOBILE, expected_path |-> "JSON"],
      [url |-> LongLink(EXPLORE, "69042124", PC_USER),
       expected_ua |-> MOBILE, expected_path |-> "JSON"],
      [url |-> LongLink(EXPLORE, "68ffb783", PC_USER),
       expected_ua |-> MOBILE, expected_path |-> "JSON"] }

\* What the rules of get_link_type look for, and a part of a URL they do not.
Marks == {XHSLINK, DISCOVERY, EXPLORE, PC_USER, NOTE_ID}

\* The URLs routed: those of TEST_LINKS, and every URL of at most MaxMarks
\* parts, in any order, with and without a scheme.
RoutedUrls ==
    {info.url : info \in TEST_LINKS}
    \cup SeqsUpTo(Marks, MaxMarks)
    \cup {<<HTTP, SLASHES>> \o u : u \in SeqsUpTo(Marks, MaxMarks)}

RouteInit ==
    /\ impl = "main"
    /\ input_url \in RoutedUrls
    /\ full_url = <<>>
    /\ link_pc = "test"
    /\ stages = <<>>
    /\ redirect_status = 0
    /\ fetch_status = 0
    /\ link_type = ""
    /\ use_desktop_ua = FALSE
    /\ extraction_path = ""
    /\ link_result = NoRecord
    /\ ExtractIdle
    /\ NoteIdle
    /\ ScanIdle
    /\ TextIdle
    /\ TestIdle

\* test_single_link up to its call of parse_xhs_link: the link type of the
\* URL as given, and the UA and the extraction path of that type.
TestSingleLink ==
    /\ link_pc = "test"
    /\ LET type == get_link_type(input_url)
           settings == get_ua_and_extraction_path(type)
       IN test_link' = [t |-> "locals",
                        link_type |-> type,
                        use_desktop_ua |-> settings[1],
                        extraction_path |-> settings[2],
                        actual_ua |-> IF settings[1] THEN DESKTOP ELSE MOBILE]
    /\ link_pc' = "start"
    /\ UNCHANGED <<impl, input_url, full_url, stages, redirect_status, fetch_status,
                   link_type, use_desktop_ua, extraction_path, link_result>>
    /\ UNCHANGED <<extractVars, noteVars, scanVars, textVars>>

RouteNext ==
    \/ TestSingleLink
    \/ Resolve
    \/ TakeLongLink
    \/ Route
    \/ FetchPage
    \/ ExtractState
    \/ ParseNoteMain
    \/ MetaFallback

SpecRoute == RouteInit /\ [][RouteNext]_vars

LinkTypes == {SHARE_SHORT, SHARE_LONG, EXPLORE_LONG, USER_LONG}

\* The rules in their order: what each looks for in the URL, and the type
\* it gives.
RuleMarkers == <<XHSLINK, DISCOVERY, EXPLORE>>

RuleTypes(url) ==
    <<SHARE_SHORT, SHARE_LONG, IF HasToken(url, PC_USER) THEN USER_LONG ELSE EXPLORE_LONG>>

MatchingRules(url) == {n \in 1..Len(RuleMarkers) : HasToken(url, RuleMarkers[n])}

\* The type of the first rule that matches, share short link when none does.
FirstMatchType(url) ==
    IF MatchingRules(url) = {} THEN SHARE_SHORT
    ELSE RuleTypes(url)[CHOOSE n \in MatchingRules(url) :
                            \A m \in MatchingRules(url) : n <= m]

\* The fetch settings of a type: <<desktop UA, extraction path>>.
SettingsOf(type) ==
    IF type = SHARE_LONG THEN <<TRUE, "JSON+meta">> ELSE <<FALSE, "JSON">>

\* test_single_link has routed the URL it was given.
Tested == test_link # NotApplied

\* parse_xhs_link has routed the URL it fetches.
Routed == impl = "main" /\ HasStage("route")

C21_SecondRuleFirst ==
    /\ Tested
    /\ Routed
    /\ MatchingRules(input_url) = {2, 3}
    /\ link_type = SHARE_LONG
    /\ use_desktop_ua
    /\ extraction_path = "JSON+meta"

\* Every link of TEST_LINKS gets the UA and the path the list expects.
TestLinksAsExpected ==
    \A info \in TEST_LINKS :
        (Tested /\ input_url = info.url) =>
            /\ test_link.actual_ua = info.expected_ua
            /\ test_link.extraction_path = info.expected_path

\* What parse_xhs_link uses is what test_single_link announced.
CallUsesAnnounced ==
    (Tested /\ Routed) =>
        /\ link_type = test_link.link_type
        /\ use_desktop_ua = test_link.use_desktop_ua
        /\ extraction_path = test_link.extraction_path

====
